---- MODULE Spec2Model ----
(***************************************************************************)
(* Resource resolution of the enhanced Home Assistant MCP server:          *)
(* the homeassistant_get_resource tool (URI router and its six handlers)   *)
(* and the State Provider it fetches from.                                 *)
(*                                                                         *)
(* Strings are sequences of one-character strings, so that parsing,        *)
(* splitting, percent-decoding, prefix tests and case-insensitive          *)
(* substring search are computed character by character, as the code does. *)
(* An optional value (a field that may be undefined) is a sequence of      *)
(* length 0 (undefined) or 1 (the value).                                  *)
(***************************************************************************)
EXTENDS Integers, Sequences, FiniteSets, Bags, TLC

VARIABLES pc, uri, call, fetches, result, response

vars == <<pc, uri, call, fetches, result, response>>

\* the state of the process that outlives a request: the favorites map
\* global.haFavorites; the invocations of the favorites and bulk tools that
\* are at an await; and the invocation that returned last, with its response
VARIABLES haFavorites, requests, returned

\* process.env as the sessions leave it, the servers created so far, and
\* the last request that went out to Home Assistant
VARIABLES env, servers, sent

serverVars == <<env, servers, sent>>

processVars == <<haFavorites, requests, returned, serverVars>>

\* what the favorites and bulk tools return: formatErrorResponse and
\* formatSuccessResponse with the numbers and lists the text is made of
Reply == [isError |-> FALSE, text |-> "", arg |-> <<>>, count |-> 0,
          successful |-> 0, failed |-> 0, lines |-> <<>>]

\* an invocation in flight: its arguments, where it is (awaiting a state
\* lookup, awaiting service calls, or done), and its local variables
NoRequest ==
    [tool |-> "none", operation |-> "", entity_id |-> <<>>, alias |-> <<>>,
     parallel |-> FALSE, entity_ids |-> <<>>, service_data |-> <<>>,
     pc |-> "done", count |-> 0, pos |-> 0, current |-> <<>>,
     rendered |-> <<>>,
     favoriteEntities |-> <<>>, calls |-> <<>>, results |-> <<>>,
     response |-> Reply]

\* the session ids the servers are created for
Sessions == {"s1", "s2"}

\* process.env before any session has written to it
NoEnv == [HOME_ASSISTANT_URL |-> "", HOME_ASSISTANT_TOKEN |-> ""]

\* a session id for which no server has been created
NoServer ==
    [created |-> FALSE, entry |-> "", config |-> NoEnv, tools |-> <<>>,
     timer |-> "none", loadError |-> FALSE]

NoSent == [session |-> "", tool |-> "", url |-> "", token |-> ""]

\* the process right after start: no favorites map, no invocation, no
\* session
ProcessStarted ==
    /\ haFavorites = [exists |-> FALSE, entries |-> <<>>]
    /\ requests = EmptyBag
    /\ returned = NoRequest
    /\ env = NoEnv
    /\ servers = [s \in Sessions |-> NoServer]
    /\ sent = NoSent

----------------------------------------------------------------------------
(* Character-level string helpers (JavaScript String methods).             *)

\* s.startsWith(p)
StartsWith(s, p) ==
    /\ Len(p) <= Len(s)
    /\ \A i \in 1..Len(p) : s[i] = p[i]

\* s.indexOf(c) for a single character, 1-based; 0 when absent
RECURSIVE IndexFrom(_, _, _)
IndexFrom(s, c, i) ==
    IF i > Len(s) THEN 0
    ELSE IF s[i] = c THEN i
    ELSE IndexFrom(s, c, i + 1)

IndexOf(s, c) == IndexFrom(s, c, 1)

\* s.split(sep) for a single-character separator: every piece, empty ones too
RECURSIVE Split(_, _)
Split(s, sep) ==
    LET i == IndexOf(s, sep)
    IN  IF i = 0 THEN <<s>>
        ELSE <<SubSeq(s, 1, i - 1)>> \o Split(SubSeq(s, i + 1, Len(s)), sep)

\* pieces.join(sep)
RECURSIVE Join(_, _)
Join(pieces, sep) ==
    IF Len(pieces) = 0 THEN <<>>
    ELSE IF Len(pieces) = 1 THEN pieces[1]
    ELSE pieces[1] \o sep \o Join(Tail(pieces), sep)

\* String.prototype.toLowerCase, on the letters the model uses in both cases
LowerChar(c) ==
    CASE c = "A" -> "a"
      [] c = "D" -> "d"
      [] OTHER   -> c

toLowerCase(s) == [i \in 1..Len(s) |-> LowerChar(s[i])]

IsWhiteSpace(c) == c = " "

\* String.prototype.trim
RECURSIVE trimStart(_)
trimStart(s) ==
    IF Len(s) > 0 /\ IsWhiteSpace(s[1]) THEN trimStart(Tail(s)) ELSE s

RECURSIVE trimEnd(_)
trimEnd(s) ==
    IF Len(s) > 0 /\ IsWhiteSpace(s[Len(s)])
    THEN trimEnd(SubSeq(s, 1, Len(s) - 1))
    ELSE s

trim(s) == trimEnd(trimStart(s))

\* hay.includes(needle): scan the start offsets from the left
RECURSIVE IncludesFrom(_, _, _)
IncludesFrom(hay, needle, i) ==
    IF i + Len(needle) - 1 > Len(hay) THEN FALSE
    ELSE IF StartsWith(SubSeq(hay, i, Len(hay)), needle) THEN TRUE
    ELSE IncludesFrom(hay, needle, i + 1)

includes(hay, needle) == IncludesFrom(hay, needle, 1)

\* Array.prototype.slice(0, n) with JavaScript's treatment of a negative end
\* (counted back from the end of the array)
slice0(arr, n) ==
    LET end == IF n < 0 THEN (IF Len(arr) + n < 0 THEN 0 ELSE Len(arr) + n)
               ELSE IF n > Len(arr) THEN Len(arr) ELSE n
    IN  SubSeq(arr, 1, end)

\* Array.prototype.filter(p => p): drop the empty pieces
RECURSIVE NonEmpty(_)
NonEmpty(pieces) ==
    IF Len(pieces) = 0 THEN <<>>
    ELSE IF Len(pieces[1]) = 0 THEN NonEmpty(Tail(pieces))
    ELSE <<pieces[1]>> \o NonEmpty(Tail(pieces))

----------------------------------------------------------------------------
(* new URL(uri) for a URI without base, following the WHATWG URL parser    *)
(* that Node's URL implements.  The modelled inputs contain no '?', '#',   *)
(* '@', whitespace or dot-segments, and only schemes that are not special  *)
(* (hass, foo), so those branches of the parser are left out.              *)

Letters == {"a", "b", "c", "d", "e", "f", "g", "h", "i", "j", "k", "l", "m",
            "n", "o", "p", "q", "r", "s", "t", "u", "v", "w", "x", "y", "z",
            "A", "D"}

Digits  == {"0", "1", "2", "3", "4", "5", "6", "7", "8", "9"}

IsSchemeChar(c) == c \in Letters \cup Digits \cup {"+", "-", "."}

\* scheme state: an ASCII letter, then letters, digits, '+', '-', '.', up to
\* the first ':'; anything else is a failure, which the constructor throws
HasScheme(input) ==
    LET colon == IndexOf(input, ":")
    IN  /\ colon > 1
        /\ input[1] \in Letters
        /\ \A i \in 1..(colon - 1) : IsSchemeChar(input[i])

\* path state and the pathname getter of a URL whose path is a list of
\* segments: the text after the leading '/' is cut at every '/', and the
\* getter writes '/' before every segment
RECURSIVE SerializePath(_)
SerializePath(segments) ==
    IF Len(segments) = 0 THEN <<>>
    ELSE <<"/">> \o segments[1] \o SerializePath(Tail(segments))

PathState(text) ==
    IF Len(text) = 0 THEN <<>>
    ELSE SerializePath(Split(Tail(text), "/"))

\* the parsed URL: ok = FALSE when the constructor throws TypeError
ParseURL(input) ==
    IF ~HasScheme(input)
    THEN [ok |-> FALSE, protocol |-> <<>>, host |-> <<>>, pathname |-> <<>>]
    ELSE
      LET colon  == IndexOf(input, ":")
          scheme == toLowerCase(SubSeq(input, 1, colon - 1))
          rest   == SubSeq(input, colon + 1, Len(input))
      IN  IF StartsWith(rest, <<"/", "/">>)
          THEN \* authority state: the host runs up to the next '/'
               LET after == SubSeq(rest, 3, Len(rest))
                   slash == IndexOf(after, "/")
                   host  == IF slash = 0 THEN after
                            ELSE SubSeq(after, 1, slash - 1)
                   path  == IF slash = 0 THEN <<>>
                            ELSE SubSeq(after, slash, Len(after))
               IN  [ok |-> TRUE, protocol |-> scheme \o <<":">>,
                    host |-> host, pathname |-> PathState(path)]
          ELSE IF StartsWith(rest, <<"/">>)
          THEN \* path state, no authority
               [ok |-> TRUE, protocol |-> scheme \o <<":">>,
                host |-> <<>>, pathname |-> PathState(rest)]
          ELSE \* opaque path: kept as written
               [ok |-> TRUE, protocol |-> scheme \o <<":">>,
                host |-> <<>>, pathname |-> rest]

\* url.pathname.split('/').filter(p => p)
PathParts(url) == NonEmpty(Split(url.pathname, "/"))

----------------------------------------------------------------------------
(* decodeURIComponent and parseInt                                         *)

HexDigits == Digits \cup {"a", "b", "c", "d", "e", "f", "A", "D"}

\* the escapes the modelled inputs use, with the character each stands for
PercentTable(h1, h2) ==
    CASE h1 = "2" /\ h2 = "0" -> " "
      [] h1 = "4" /\ h2 = "1" -> "A"
      [] h1 = "6" /\ h2 = "1" -> "a"
      [] OTHER                -> "?"

\* decodeURIComponent: ok = FALSE when it throws URIError (a '%' that is not
\* followed by two hexadecimal digits)
RECURSIVE decodeURIComponent(_)
decodeURIComponent(s) ==
    IF Len(s) = 0 THEN [ok |-> TRUE, val |-> <<>>]
    ELSE IF s[1] # "%"
    THEN LET r == decodeURIComponent(Tail(s))
         IN  [ok |-> r.ok, val |-> <<s[1]>> \o r.val]
    ELSE IF Len(s) >= 3 /\ s[2] \in HexDigits /\ s[3] \in HexDigits
    THEN LET r == decodeURIComponent(SubSeq(s, 4, Len(s)))
         IN  [ok |-> r.ok, val |-> <<PercentTable(s[2], s[3])>> \o r.val]
    ELSE [ok |-> FALSE, val |-> <<>>]

DigitValue(c) ==
    CASE c = "0" -> 0 [] c = "1" -> 1 [] c = "2" -> 2 [] c = "3" -> 3
      [] c = "4" -> 4 [] c = "5" -> 5 [] c = "6" -> 6 [] c = "7" -> 7
      [] c = "8" -> 8 [] c = "9" -> 9

\* the value of the longest prefix of decimal digits, given the value so far
RECURSIVE DigitsPrefix(_, _)
DigitsPrefix(s, acc) ==
    IF Len(s) > 0 /\ s[1] \in Digits
    THEN DigitsPrefix(Tail(s), 10 * acc + DigitValue(s[1]))
    ELSE acc

\* parseInt(s): leading white space is skipped, then an optional sign, then
\* the longest run of decimal digits; nan = TRUE when there is no digit
parseInt(s) ==
    LET t        == trimStart(s)
        negative == Len(t) > 0 /\ t[1] = "-"
        signed   == Len(t) > 0 /\ t[1] \in {"-", "+"}
        body     == IF signed THEN Tail(t) ELSE t
    IN  IF Len(body) = 0 \/ body[1] \notin Digits
        THEN [nan |-> TRUE, val |-> 0]
        ELSE [nan |-> FALSE,
              val |-> IF negative THEN 0 - DigitsPrefix(body, 0)
                      ELSE DigitsPrefix(body, 0)]

\* the default search limit
DefaultLimit == 20

\* parseInt(segment) || 20: NaN and 0 are falsy
LimitOf(segment) ==
    LET n == parseInt(segment)
    IN  IF n.nan \/ n.val = 0 THEN DefaultLimit ELSE n.val

----------------------------------------------------------------------------
(* The words of the URI surface, and the domain names of the attribute    *)
(* table, as character sequences.                                          *)

hass == <<"h", "a", "s", "s">>

foo == <<"f", "o", "o">>

entities == <<"e", "n", "t", "i", "t", "i", "e", "s">>

domainWord == <<"d", "o", "m", "a", "i", "n">>

detailed == <<"d", "e", "t", "a", "i", "l", "e", "d">>

summary == <<"s", "u", "m", "m", "a", "r", "y">>

search == <<"s", "e", "a", "r", "c", "h">>

d_light == <<"l", "i", "g", "h", "t">>

d_switch == <<"s", "w", "i", "t", "c", "h">>

d_binary_sensor == <<"b", "i", "n", "a", "r", "y", "_", "s", "e", "n", "s", "o", "r">>

d_sensor == <<"s", "e", "n", "s", "o", "r">>

d_climate == <<"c", "l", "i", "m", "a", "t", "e">>

d_media_player == <<"m", "e", "d", "i", "a", "_", "p", "l", "a", "y", "e", "r">>

d_cover == <<"c", "o", "v", "e", "r">>

d_fan == <<"f", "a", "n">>

d_camera == <<"c", "a", "m", "e", "r", "a">>

d_automation == <<"a", "u", "t", "o", "m", "a", "t", "i", "o", "n">>

d_scene == <<"s", "c", "e", "n", "e">>

d_script == <<"s", "c", "r", "i", "p", "t">>

hassProtocol == <<"h", "a", "s", "s", ":">>

hassEntitiesPrefix == <<"h", "a", "s", "s", ":", "/", "/", "e", "n", "t", "i", "t", "i", "e", "s", "/">>

hassDomainPrefix == <<"h", "a", "s", "s", ":", "/", "/", "e", "n", "t", "i", "t", "i", "e", "s", "/", "d", "o", "m", "a", "i", "n", "/">>

hassSearchPrefix == <<"h", "a", "s", "s", ":", "/", "/", "s", "e", "a", "r", "c", "h", "/">>

slashDetailed == <<"/", "d", "e", "t", "a", "i", "l", "e", "d">>

slashSummary == <<"/", "s", "u", "m", "m", "a", "r", "y">>

slashTwenty == <<"/", "2", "0">>

----------------------------------------------------------------------------
(* Entity records and the State Provider's data.                           *)
(* An entity is [entity_id, state, attributes]: state is optional, and     *)
(* attributes is the list of [key, val] pairs in the object's own order.   *)

Entity(id, st, attrs) ==
    [entity_id |-> id, state |-> st, attributes |-> attrs,
     hasAttributes |-> TRUE, last_updated |-> <<>>, last_changed |-> <<>>,
     context |-> <<>>]

\* an entity with its optional parts spelled out: attributes may be absent,
\* last_updated and last_changed are optional strings, context an optional
\* object given by its JSON text
FullEntity(id, st, attrs, hasAttrs, updated, changed, ctx) ==
    [entity_id |-> id, state |-> st, attributes |-> attrs,
     hasAttributes |-> hasAttrs, last_updated |-> updated,
     last_changed |-> changed, context |-> ctx]

\* an attribute whose value is a string
Attr(k, v) == [key |-> k, val |-> v, kind |-> "string"]

\* an attribute whose value is of another JSON kind (number, array, object,
\* null); val is then the JSON text of the value
AttrOf(k, v, kind) == [key |-> k, val |-> v, kind |-> kind]

\* typeof value === 'object' && value !== null
IsComplex(a) == a.kind \in {"array", "object"}

\* JSON.stringify(value) for values without characters to escape
JSONStringify(a) ==
    IF a.kind = "string" THEN <<"\"">> \o a.val \o <<"\"">> ELSE a.val

\* entity.attributes?.[key]: optional, the first pair with that key
RECURSIVE Lookup(_, _)
Lookup(attrs, k) ==
    IF Len(attrs) = 0 THEN <<>>
    ELSE IF attrs[1].key = k THEN <<attrs[1].val>>
    ELSE Lookup(Tail(attrs), k)

\* a JavaScript string in a boolean position: undefined and "" are falsy
Truthy(opt) == Len(opt) = 1 /\ Len(opt[1]) > 0

\* const DOMAIN_IMPORTANT_ATTRIBUTES
DOMAIN_IMPORTANT_ATTRIBUTES(d) ==
    CASE d = d_light         -> <<"brightness", "color_temp", "rgb_color",
                                  "supported_color_modes">>
      [] d = d_switch        -> <<"device_class">>
      [] d = d_binary_sensor -> <<"device_class">>
      [] d = d_sensor        -> <<"device_class", "unit_of_measurement",
                                  "state_class">>
      [] d = d_climate       -> <<"hvac_mode", "current_temperature",
                                  "temperature", "hvac_action">>
      [] d = d_media_player  -> <<"media_title", "media_artist", "source",
                                  "volume_level">>
      [] d = d_cover         -> <<"current_position", "current_tilt_position">>
      [] d = d_fan           -> <<"percentage", "preset_mode">>
      [] d = d_camera        -> <<"entity_picture">>
      [] d = d_automation    -> <<"last_triggered">>
      [] d = d_scene         -> <<>>
      [] d = d_script        -> <<"last_triggered">>
      [] OTHER               -> <<>>

\* entity_id.split('.')[0]
DomainOf(id) == Split(id, ".")[1]

\* a.localeCompare(b) < 0 on the characters entity ids are made of: symbols
\* sort before digits, digits before letters
CollationOrder == <<"_", ".", "0", "1", "2", "3", "4", "5", "6", "7", "8", "9",
                    "a", "b", "c", "d", "e", "f", "g", "h", "i", "j", "k", "l",
                    "m", "n", "o", "p", "q", "r", "s", "t", "u", "v", "w", "x",
                    "y", "z">>

CharRank(c) == IndexOf(CollationOrder, c)

RECURSIVE LocaleLess(_, _)
LocaleLess(a, b) ==
    IF Len(b) = 0 THEN FALSE
    ELSE IF Len(a) = 0 THEN TRUE
    ELSE IF CharRank(a[1]) # CharRank(b[1]) THEN CharRank(a[1]) < CharRank(b[1])
    ELSE LocaleLess(Tail(a), Tail(b))

----------------------------------------------------------------------------
(* The rendered document.  A response is the fixed text of its template    *)
(* with the values interpolated into it: arg (a string of the request),    *)
(* message (the provider's or the exception's message), total, the entity  *)
(* lines, the per-domain sections, the state counts and the links written. *)

Doc == [kind |-> "text", isError |-> FALSE, text |-> "", arg |-> <<>>,
        message |-> "", total |-> 0, lines |-> <<>>, sections |-> <<>>,
        states |-> <<>>, attributes |-> <<>>, links |-> <<>>,
        object |-> <<>>]

\* formatErrorResponse(message)
formatErrorResponse(text, arg, message) ==
    [Doc EXCEPT !.isError = TRUE, !.text = text, !.arg = arg,
                !.message = message]

\* a throw statement reached inside the handler: what propagates
Thrown(message) == [Doc EXCEPT !.kind = "exception", !.message = message]

\* entity.attributes?.friendly_name || entity.entity_id
NameOf(e) ==
    LET fn == Lookup(e.attributes, "friendly_name")
    IN  IF Truthy(fn) THEN fn[1] ELSE e.entity_id

\* the attributes of the list that the entity has, in the order of the list
RECURSIVE PresentAttrs(_, _)
PresentAttrs(e, names) ==
    IF Len(names) = 0 THEN <<>>
    ELSE LET found == SelectSeq(e.attributes, LAMBDA a : a.key = names[1])
         IN  (IF Len(found) > 0 THEN <<found[1]>> ELSE <<>>)
             \o PresentAttrs(e, Tail(names))

\* one rendered entity: id, state, display name and the attributes shown
EntityLine(e, attrNames) ==
    [entity_id |-> e.entity_id, state |-> e.state, name |-> NameOf(e),
     attrs |-> PresentAttrs(e, attrNames)]

EntityLines(es, attrNames) ==
    [i \in 1..Len(es) |-> EntityLine(es[i], attrNames)]

\* AddToGroup that puts the entity at the head of its group
RECURSIVE AddToGroupAtHead(_, _)
AddToGroupAtHead(groups, e) ==
    IF Len(groups) = 0
    THEN <<[domain |-> DomainOf(e.entity_id), members |-> <<e>>]>>
    ELSE IF groups[1].domain = DomainOf(e.entity_id)
    THEN <<[groups[1] EXCEPT !.members = <<e>> \o @]>> \o Tail(groups)
    ELSE <<groups[1]>> \o AddToGroupAtHead(Tail(groups), e)

\* the grouping loop: entities.forEach(e => domains[domain].push(e)); the
\* groups are in first-seen order of their domain, as the object's keys are
RECURSIVE AddToGroup(_, _)
AddToGroup(groups, e) ==
    IF Len(groups) = 0
    THEN <<[domain |-> DomainOf(e.entity_id), members |-> <<e>>]>>
    ELSE IF groups[1].domain = DomainOf(e.entity_id)
    THEN <<[groups[1] EXCEPT !.members = Append(@, e)]>> \o Tail(groups)
    ELSE <<groups[1]>> \o AddToGroup(Tail(groups), e)

RECURSIVE GroupInto(_, _)
GroupInto(groups, es) ==
    IF Len(es) = 0 THEN groups
    ELSE GroupInto(AddToGroup(groups, es[1]), Tail(es))

GroupByDomain(es) == GroupInto(<<>>, es)

\* Object.entries(domains).sort(([a], [b]) => a.localeCompare(b)): a stable
\* insertion sort of the groups on their domain
RECURSIVE InsertGroup(_, _)
InsertGroup(sorted, g) ==
    IF Len(sorted) = 0 THEN <<g>>
    ELSE IF LocaleLess(g.domain, sorted[1].domain) THEN <<g>> \o sorted
    ELSE <<sorted[1]>> \o InsertGroup(Tail(sorted), g)

RECURSIVE SortGroups(_)
SortGroups(groups) ==
    IF Len(groups) = 0 THEN <<>>
    ELSE InsertGroup(SortGroups(SubSeq(groups, 1, Len(groups) - 1)),
                     groups[Len(groups)])

----------------------------------------------------------------------------
(* The State Provider: makeGetRequest behind getAllStates and              *)
(* getHomeAssistantState.  An ApiResponse is [success, isNull, data,       *)
(* message]; data is a list of entities (one entity for a single-entity    *)
(* fetch), and isNull says that the body was JSON null instead.            *)

NotFoundMessage == "Request failed with status code 404"

FailureMessages == {"timeout of 10000ms exceeded",
                    "HOME_ASSISTANT_TOKEN environment variable is not set"}

ApiSuccess(data) ==
    [success |-> TRUE, isNull |-> FALSE, data |-> data, message |-> ""]

\* handleApiError
handleApiError(message) ==
    [success |-> FALSE, isNull |-> FALSE, data |-> <<>>, message |-> message]

ApiNull == [success |-> TRUE, isNull |-> TRUE, data |-> <<>>, message |-> ""]

NoResult == handleApiError("")

\* GET /api/states
getAllStates(snapshot) == ApiSuccess(snapshot)

\* GET /api/states/{entity_id}: the entity, or 404 when there is none
getHomeAssistantState(snapshot, id) ==
    LET found == SelectSeq(snapshot, LAMBDA e : e.entity_id = id)
    IN  IF Len(found) = 0 THEN handleApiError(NotFoundMessage)
        ELSE ApiSuccess(<<found[1]>>)

----------------------------------------------------------------------------
(* homeassistant_get_resource: the router.                                 *)

NoCall == [handler |-> "none", entityId |-> <<>>, detailed |-> FALSE,
           domain |-> <<>>, query |-> <<>>, limit |-> 0]

Invoke(c) == [call |-> c, response |-> Doc]

Respond(r) == [call |-> NoCall, response |-> r]

UnknownPattern(input) ==
    Respond(formatErrorResponse("Unknown resource URI pattern: ", input, ""))

\* RouteEntities with the domain row tested before the detailed row
RouteEntitiesDomainFirst(input, parts) ==
    LET n == Len(parts)
    IN  IF n = 1
        THEN Invoke([NoCall EXCEPT !.handler = "handleAllEntitiesResource"])
        ELSE IF n = 2
        THEN Invoke([NoCall EXCEPT !.handler = "handleEntityResource",
                                   !.entityId = parts[2]])
        ELSE IF n = 3 /\ parts[2] = domainWord
        THEN Invoke([NoCall EXCEPT !.handler = "handleDomainResource",
                                   !.domain = parts[3]])
        ELSE IF n = 3 /\ parts[3] = detailed
        THEN Invoke([NoCall EXCEPT !.handler = "handleEntityResource",
                                   !.entityId = parts[2], !.detailed = TRUE])
        ELSE IF n = 4 /\ parts[2] = domainWord /\ parts[4] = summary
        THEN Invoke([NoCall EXCEPT !.handler = "handleDomainSummaryResource",
                                   !.domain = parts[3]])
        ELSE UnknownPattern(input)

\* the if-chain under pathParts[0] === 'entities'
RouteEntities(input, parts) ==
    LET n == Len(parts)
    IN  IF n = 1
        THEN Invoke([NoCall EXCEPT !.handler = "handleAllEntitiesResource"])
        ELSE IF n = 2
        THEN Invoke([NoCall EXCEPT !.handler = "handleEntityResource",
                                   !.entityId = parts[2]])
        ELSE IF n = 3 /\ parts[3] = detailed
        THEN Invoke([NoCall EXCEPT !.handler = "handleEntityResource",
                                   !.entityId = parts[2], !.detailed = TRUE])
        ELSE IF n = 3 /\ parts[2] = domainWord
        THEN Invoke([NoCall EXCEPT !.handler = "handleDomainResource",
                                   !.domain = parts[3]])
        ELSE IF n = 4 /\ parts[2] = domainWord /\ parts[4] = summary
        THEN Invoke([NoCall EXCEPT !.handler = "handleDomainSummaryResource",
                                   !.domain = parts[3]])
        ELSE UnknownPattern(input)

\* the branch under pathParts[0] === 'search'
RouteSearch(input, parts) ==
    IF Len(parts) >= 2
    THEN LET q == decodeURIComponent(parts[2])
         IN  IF ~q.ok THEN Respond(Thrown("URI malformed"))
             ELSE Invoke([NoCall EXCEPT
                            !.handler = "handleSearchResource",
                            !.query = q.val,
                            !.limit = IF Len(parts) > 2 THEN LimitOf(parts[3])
                                      ELSE DefaultLimit])
    ELSE UnknownPattern(input)

\* the body of the try block up to the handler call
Route(input) ==
    LET url == ParseURL(input)
    IN  IF ~url.ok THEN Respond(Thrown("Invalid URL"))
        ELSE IF url.protocol # hassProtocol
        THEN Respond(formatErrorResponse(
                       "Invalid protocol. Must use 'hass:' protocol", <<>>, ""))
        ELSE LET parts == PathParts(url)
             IN  IF Len(parts) >= 1 /\ parts[1] = entities
                 THEN RouteEntities(input, parts)
                 ELSE IF Len(parts) >= 1 /\ parts[1] = search
                 THEN RouteSearch(input, parts)
                 ELSE UnknownPattern(input)

\* Catch without its catch block: what was thrown propagates
CatchRethrows(r) == r

\* catch (error): formatErrorResponse(`Error processing resource URI: ...`)
Catch(r) ==
    IF r.kind = "exception"
    THEN formatErrorResponse("Error processing resource URI: ", <<>>, r.message)
    ELSE r

----------------------------------------------------------------------------
(* The six handlers.  Each awaits one fetch; HandlerFetches is what it     *)
(* requests before it suspends, and the handle...Resource operators are    *)
(* its code after the await, on the ApiResponse it got.                    *)

\* IsBlankQuery without the trim: only the empty string is blank
IsBlankQueryNoTrim(q) == Len(q) = 0

\* !query || query.trim() === ""
IsBlankQuery(q) == Len(q) = 0 \/ Len(trim(q)) = 0

Fetch(fn, id) == [fn |-> fn, entity_id |-> id]

\* HandlerFetches with a follow-up fetch after the list fetch of a domain view
HandlerFetchesWithFollowUp(c) ==
    IF c.handler = "handleSearchResource"
    THEN (IF IsBlankQuery(c.query) THEN <<>>
          ELSE <<Fetch("getAllStates", <<>>)>>)
    ELSE IF c.handler = "handleEntityResource"
    THEN <<Fetch("getHomeAssistantState", c.entityId)>>
    ELSE IF c.handler = "handleDomainResource"
    THEN <<Fetch("getAllStates", <<>>),
           Fetch("getHomeAssistantState", c.domain)>>
    ELSE <<Fetch("getAllStates", <<>>)>>

HandlerFetches(c) ==
    IF c.handler = "handleSearchResource"
    THEN (IF IsBlankQuery(c.query) THEN <<>>
          ELSE <<Fetch("getAllStates", <<>>)>>)
    ELSE IF c.handler = "handleEntityResource"
    THEN <<Fetch("getHomeAssistantState", c.entityId)>>
    ELSE <<Fetch("getAllStates", <<>>)>>

\* what a handler returns without fetching
EarlyResponse(c) == formatErrorResponse("Please provide a search query", <<>>, "")

NullData == Thrown("Cannot read properties of null")

PreviewSize == 5

\* Section that prints every member of the domain
SectionUnbounded(g) ==
    [domain |-> g.domain, count |-> Len(g.members),
     shown  |-> EntityLines(g.members, <<>>),
     more   |-> IF Len(g.members) > PreviewSize
                THEN Len(g.members) - PreviewSize ELSE 0]

\* one domain of the overview: its size, its first five entities and the
\* number of those left out
Section(g) ==
    [domain |-> g.domain, count |-> Len(g.members),
     shown  |-> EntityLines(slice0(g.members, PreviewSize), <<>>),
     more   |-> IF Len(g.members) > PreviewSize
                THEN Len(g.members) - PreviewSize ELSE 0]

\* the links written under the domains that have more than five members
RECURSIVE MoreLinks(_)
MoreLinks(groups) ==
    IF Len(groups) = 0 THEN <<>>
    ELSE (IF Len(groups[1].members) > PreviewSize
          THEN <<hassDomainPrefix \o groups[1].domain>> ELSE <<>>)
         \o MoreLinks(Tail(groups))

handleAllEntitiesResource(res) ==
    IF ~res.success
    THEN formatErrorResponse("Error retrieving entities: ", <<>>, res.message)
    ELSE IF res.isNull THEN NullData
    ELSE LET groups == SortGroups(GroupByDomain(res.data))
         IN  [Doc EXCEPT !.text = "# Home Assistant Entities Overview",
                         !.total = Len(res.data),
                         !.sections = [i \in 1..Len(groups) |-> Section(groups[i])],
                         !.links = MoreLinks(groups)]

\* content += `- **${attrName}**: ${JSON.stringify(attributes[attrName])}\n`
AttributeBullet(a) == [key |-> a.key, text |-> JSONStringify(a)]

AttributeBullets(attrs) == [i \in 1..Len(attrs) |-> AttributeBullet(attrs[i])]

handleEntityResource(entityId, isDetailed, res) ==
    IF ~res.success
    THEN formatErrorResponse("Error retrieving entity ", entityId, res.message)
    ELSE IF res.isNull THEN NullData
    ELSE LET entity == res.data[1]
             domain == DomainOf(entityId)
             shown  == IF isDetailed THEN entity.attributes
                       ELSE PresentAttrs(entity, DOMAIN_IMPORTANT_ATTRIBUTES(domain))
         IN  [Doc EXCEPT
                !.text  = IF isDetailed THEN "# Entity (Detailed): " ELSE "# Entity: ",
                !.arg   = entityId,
                !.total = 1,
                !.lines = <<[entity_id |-> entityId, state |-> entity.state,
                             name |-> NameOf(entity),
                             attrs |-> AttributeBullets(shown)]>>,
                !.links = IF isDetailed THEN <<>>
                          ELSE <<hassEntitiesPrefix \o entityId \o slashDetailed>>]

\* InDomain with the prefix test on the domain alone, without the dot
InDomainNoDot(es, domain) ==
    SelectSeq(es, LAMBDA e : StartsWith(e.entity_id, domain))

\* allEntities.filter(entity => entity.entity_id.startsWith(`${domain}.`))
InDomain(es, domain) ==
    SelectSeq(es, LAMBDA e : StartsWith(e.entity_id, domain \o <<".">>))

\* NoEntitiesForDomain as a success response, like Search's empty result
NoEntitiesForDomainAsSuccess(domain) ==
    [Doc EXCEPT !.text = "No entities found for domain: ", !.arg = domain]

NoEntitiesForDomain(domain) ==
    formatErrorResponse("No entities found for domain: ", domain, "")

handleDomainResource(domain, res) ==
    IF ~res.success
    THEN formatErrorResponse("Error retrieving entities: ", <<>>, res.message)
    ELSE IF res.isNull THEN NullData
    ELSE LET es == InDomain(res.data, domain)
         IN  IF Len(es) = 0 THEN NoEntitiesForDomain(domain)
             ELSE [Doc EXCEPT
                     !.text  = "# Domain Entities: ",
                     !.arg   = domain,
                     !.total = Len(es),
                     !.lines = EntityLines(es, DOMAIN_IMPORTANT_ATTRIBUTES(domain)),
                     !.links = <<hassDomainPrefix \o domain \o slashSummary,
                                 hassSearchPrefix \o domain \o slashTwenty>>]

\* attributesSummary[key].add(typeof value === 'object' ?
\* JSON.stringify(value) : value): the member a value becomes in the Set
SetMember(a) ==
    [kind |-> IF IsComplex(a) THEN "string" ELSE a.kind, val |-> a.val]

\* one attribute of one entity enters attributesSummary: its key gets an
\* entry on first sight, and its value joins the Set unless it is null or
\* already in it; keys and members are in insertion order
RECURSIVE AddAttribute(_, _)
AddAttribute(acc, a) ==
    IF Len(acc) = 0
    THEN <<[attr |-> a.key,
            values |-> IF a.kind = "null" THEN <<>> ELSE <<SetMember(a)>>]>>
    ELSE IF acc[1].attr = a.key
    THEN <<[acc[1] EXCEPT !.values =
               IF a.kind = "null"
                  \/ \E i \in 1..Len(@) : @[i] = SetMember(a)
               THEN @ ELSE Append(@, SetMember(a))]>>
         \o Tail(acc)
    ELSE <<acc[1]>> \o AddAttribute(Tail(acc), a)

\* (each step's accumulator is evaluated before the next step is taken)
RECURSIVE AddAttributes(_, _)
AddAttributes(acc, attrs) ==
    IF Len(attrs) = 0 THEN acc
    ELSE LET next == AddAttribute(acc, attrs[1])
         IN  IF Len(next) > 0 THEN AddAttributes(next, Tail(attrs)) ELSE next

\* the attributesSummary built by entities.forEach
RECURSIVE AttributesSummary(_, _)
AttributesSummary(acc, es) ==
    IF Len(es) = 0 THEN acc
    ELSE LET next == AddAttributes(acc, es[1].attributes)
         IN  IF Len(next) >= 0 THEN AttributesSummary(next, Tail(es)) ELSE next

\* the number of attributes the summary prints
TopAttributes == 10

\* the largest Set whose members are printed
MaxValuesListed == 5

\* InsertBySize that puts an entry before the entries of its own size
RECURSIVE InsertBySizeBeforeTies(_, _)
InsertBySizeBeforeTies(sorted, x) ==
    IF Len(sorted) = 0 THEN <<x>>
    ELSE IF Len(x.values) >= Len(sorted[1].values) THEN <<x>> \o sorted
    ELSE <<sorted[1]>> \o InsertBySizeBeforeTies(Tail(sorted), x)

\* .sort(([, a], [, b]) => b.size - a.size): a stable sort, larger Sets
\* first
RECURSIVE InsertBySize(_, _)
InsertBySize(sorted, x) ==
    IF Len(sorted) = 0 THEN <<x>>
    ELSE IF Len(x.values) > Len(sorted[1].values) THEN <<x>> \o sorted
    ELSE <<sorted[1]>> \o InsertBySize(Tail(sorted), x)

RECURSIVE SortBySize(_)
SortBySize(acc) ==
    IF Len(acc) = 0 THEN <<>>
    ELSE InsertBySize(SortBySize(SubSeq(acc, 1, Len(acc) - 1)),
                      acc[Len(acc)])

\* the lines of the Common Attributes section: the name, the number of
\* unique values and, for at most five of them, the values
CommonAttributes(es) ==
    LET sortedAttributes ==
            slice0(SortBySize(AttributesSummary(<<>>, es)), TopAttributes)
    IN  [i \in 1..Len(sortedAttributes) |->
            [attr   |-> sortedAttributes[i].attr,
             count  |-> Len(sortedAttributes[i].values),
             listed |-> Len(sortedAttributes[i].values) <= MaxValuesListed,
             values |-> IF Len(sortedAttributes[i].values) <= MaxValuesListed
                        THEN slice0(sortedAttributes[i].values, MaxValuesListed)
                        ELSE <<>>]]

unknown == <<"u", "n", "k", "n", "o", "w", "n">>

\* stateCounts[state] = (stateCounts[state] || 0) + 1, keys in first-seen order
RECURSIVE CountState(_, _)
CountState(counts, st) ==
    IF Len(counts) = 0 THEN <<[state |-> st, count |-> 1]>>
    ELSE IF counts[1].state = st
    THEN <<[counts[1] EXCEPT !.count = @ + 1]>> \o Tail(counts)
    ELSE <<counts[1]>> \o CountState(Tail(counts), st)

RECURSIVE StateCounts(_, _)
StateCounts(counts, es) ==
    IF Len(es) = 0 THEN counts
    ELSE StateCounts(
           CountState(counts, IF Truthy(es[1].state) THEN es[1].state[1]
                              ELSE unknown),
           Tail(es))

handleDomainSummaryResource(domain, res) ==
    IF ~res.success
    THEN formatErrorResponse("Error retrieving entities: ", <<>>, res.message)
    ELSE IF res.isNull THEN NullData
    ELSE LET es == InDomain(res.data, domain)
         IN  IF Len(es) = 0 THEN NoEntitiesForDomain(domain)
             ELSE [Doc EXCEPT
                     !.text   = "# Domain Summary: ",
                     !.arg    = domain,
                     !.total  = Len(es),
                     !.states = StateCounts(<<>>, es),
                     !.attributes = CommonAttributes(es),
                     !.links  = <<hassDomainPrefix \o domain,
                                  hassSearchPrefix \o domain \o slashTwenty>>]

\* the value of  x || ""  for an optional string
OrEmpty(opt) == IF Truthy(opt) THEN opt[1] ELSE <<>>

\* query.toLowerCase().trim()
SearchTerm(query) == trim(toLowerCase(query))

\* SearchMatches without the test of the state
SearchMatchesNoState(e, term) ==
    \/ includes(toLowerCase(e.entity_id), term)
    \/ includes(toLowerCase(OrEmpty(Lookup(e.attributes, "friendly_name"))), term)

\* the filter predicate of handleSearchResource
SearchMatches(e, term) ==
    \/ includes(toLowerCase(e.entity_id), term)
    \/ includes(toLowerCase(OrEmpty(Lookup(e.attributes, "friendly_name"))), term)
    \/ includes(toLowerCase(OrEmpty(e.state)), term)

RECURSIVE SearchLinks(_)
SearchLinks(groups) ==
    IF Len(groups) = 0 THEN <<>>
    ELSE [i \in 1..Len(groups[1].members) |->
            hassEntitiesPrefix \o groups[1].members[i].entity_id]
         \o SearchLinks(Tail(groups))

handleSearchResource(query, limit, res) ==
    IF ~res.success
    THEN formatErrorResponse("Error searching entities: ", <<>>, res.message)
    ELSE IF res.isNull THEN NullData
    ELSE LET term     == SearchTerm(query)
             matching == slice0(SelectSeq(res.data,
                                          LAMBDA e : SearchMatches(e, term)),
                                limit)
             groups   == GroupByDomain(matching)
         IN  IF Len(matching) = 0
             THEN [Doc EXCEPT !.text = "No entities found matching: ",
                              !.arg = query]
             ELSE [Doc EXCEPT
                     !.text  = "# Search Results for ",
                     !.arg   = query,
                     !.total = Len(matching),
                     !.sections = [i \in 1..Len(groups) |->
                                     [domain |-> groups[i].domain,
                                      count  |-> Len(groups[i].members),
                                      shown  |-> EntityLines(groups[i].members, <<>>),
                                      more   |-> 0]],
                     !.links = SearchLinks(groups)]

\* HandlerFinish with a Search that does not test result.success and reads
\* the data of a failed fetch as an empty list
HandlerFinishSearchIgnoresFailure(c, res) ==
    CASE c.handler = "handleAllEntitiesResource" ->
           handleAllEntitiesResource(res)
      [] c.handler = "handleEntityResource" ->
           handleEntityResource(c.entityId, c.detailed, res)
      [] c.handler = "handleDomainResource" ->
           handleDomainResource(c.domain, res)
      [] c.handler = "handleDomainSummaryResource" ->
           handleDomainSummaryResource(c.domain, res)
      [] c.handler = "handleSearchResource" ->
           handleSearchResource(c.query, c.limit,
                                [res EXCEPT !.success = TRUE])

\* the handler's code after its await
HandlerFinish(c, res) ==
    CASE c.handler = "handleAllEntitiesResource" ->
           handleAllEntitiesResource(res)
      [] c.handler = "handleEntityResource" ->
           handleEntityResource(c.entityId, c.detailed, res)
      [] c.handler = "handleDomainResource" ->
           handleDomainResource(c.domain, res)
      [] c.handler = "handleDomainSummaryResource" ->
           handleDomainSummaryResource(c.domain, res)
      [] c.handler = "handleSearchResource" ->
           handleSearchResource(c.query, c.limit, res)

----------------------------------------------------------------------------
(* The inputs of the model: the entities the State Provider may hold and   *)
(* the URI strings a caller may send.                                      *)

\* the attribute names that occur in field selectors, as characters
KnownKeys == {"friendly_name", "brightness", "rgb_color", "icon"}

KeyChars(k) ==
    CASE k = "friendly_name" -> <<"f", "r", "i", "e", "n", "d", "l", "y", "_",
                                  "n", "a", "m", "e">>
      [] k = "brightness"    -> <<"b", "r", "i", "g", "h", "t", "n", "e", "s", "s">>
      [] k = "rgb_color"     -> <<"r", "g", "b", "_", "c", "o", "l", "o", "r">>
      [] k = "icon"          -> <<"i", "c", "o", "n">>

\* the attribute key spelled by the characters; "" is a key no entity has
KeyNamed(chars) ==
    IF \E k \in KnownKeys : KeyChars(k) = chars
    THEN CHOOSE k \in KnownKeys : KeyChars(k) = chars
    ELSE ""

\* the selectors the tools recognise
f_state == <<"s", "t", "a", "t", "e">>

f_attributes == <<"a", "t", "t", "r", "i", "b", "u", "t", "e", "s">>

f_attrDot == <<"a", "t", "t", "r", ".">>

f_last_updated == <<"l", "a", "s", "t", "_", "u", "p", "d", "a", "t", "e", "d">>

f_last_changed == <<"l", "a", "s", "t", "_", "c", "h", "a", "n", "g", "e", "d">>

f_context == <<"c", "o", "n", "t", "e", "x", "t">>

\* the largest number of entities in one snapshot
MaxEntities == 3

lightA  == <<"l", "i", "g", "h", "t", ".", "a">>

lightB  == <<"l", "i", "g", "h", "t", ".", "b">>

sensorC == <<"s", "e", "n", "s", "o", "r", ".", "c">>

sensorD == <<"s", "e", "n", "s", "o", "r", ".", "d">>

lightsA == <<"l", "i", "g", "h", "t", "s", ".", "a">>

fanZ    == <<"f", "a", "n", ".", "z">>

\* light.a and lights.a have no friendly_name, lights.a has no state;
\* light.b is named "A b", sensor.c is in state "A2"
EntityPool ==
    { Entity(lightA,  <<<<"o", "n">>>>, <<>>),
      Entity(lightB,  <<<<"o", "f", "f">>>>,
             <<Attr("friendly_name", <<"A", " ", "b">>),
               AttrOf("brightness", <<"2">>, "number")>>),
      Entity(sensorC, <<<<"A", "2">>>>, <<>>),
      Entity(sensorD, <<<<"o", "n">>>>,
             <<Attr("friendly_name", <<"D">>)>>),
      Entity(lightsA, <<>>, <<>>) }

\* the lists of distinct entities of the pool, in every order
Snapshots ==
    UNION { { s \in [1..n -> EntityPool] :
                \A i, j \in 1..n : i # j => s[i] # s[j] } : n \in 0..MaxEntities }

\* the largest number of entities in one of the long snapshots
MaxLarge == 7

NumeralChars == <<"1", "2", "3", "4", "5", "6", "7", "8", "9">>

\* light.1, light.2, ...: a light that is on, without attributes
LightN(i) ==
    Entity(<<"l", "i", "g", "h", "t", ".", NumeralChars[i]>>, <<<<"o", "n">>>>, <<>>)

\* the long snapshots: n lights in ascending order of entity_id, in
\* descending order, and in descending order after sensor.c
LargeSnapshots ==
    UNION { { [i \in 1..n |-> LightN(i)],
              [i \in 1..n |-> LightN(n + 1 - i)],
              <<Entity(sensorC, <<<<"A", "2">>>>, <<>>)>>
                 \o [i \in 1..(n - 1) |-> LightN(n - i)] } :
            n \in (PreviewSize + 1)..MaxLarge }

\* the largest number of attributes on an entity of the summary snapshots
MaxAttrs == 12

AttrNames == <<"a01", "a02", "a03", "a04", "a05", "a06", "a07", "a08", "a09",
               "a10", "a11", "a12", "a13", "a14">>

\* attribute j of light i: the number min(i, j), so that attribute j takes
\* min(n, j) values over n lights; attribute 3 holds it in an array,
\* attribute 2 is null on the even lights
SummaryAttr(i, j) ==
    LET d == NumeralChars[IF i <= j THEN i ELSE j]
    IN  IF j = 3 THEN AttrOf(AttrNames[j], <<"[", d, "]">>, "array")
        ELSE IF j = 2 /\ i % 2 = 0 THEN AttrOf(AttrNames[j], <<"n", "u", "l", "l">>, "null")
        ELSE AttrOf(AttrNames[j], <<d>>, "number")

\* light i of a summary snapshot: on, off or without state in turn, named
\* when i is even, its attributes in ascending or in descending order
SummaryLight(i, ascending) ==
    Entity(<<"l", "i", "g", "h", "t", ".", NumeralChars[i]>>,
           CASE i % 3 = 1 -> <<<<"o", "n">>>>
             [] i % 3 = 2 -> <<<<"o", "f", "f">>>>
             [] OTHER     -> <<>>,
           (IF i % 2 = 0 THEN <<Attr("friendly_name", <<"L", NumeralChars[i]>>)>>
            ELSE <<>>)
           \o [j \in 1..MaxAttrs |->
                 SummaryAttr(i, IF ascending THEN j ELSE MaxAttrs + 1 - j)])

\* the attribute-rich snapshots: sensor.c and then n such lights
RichSnapshots ==
    { <<Entity(sensorC, <<<<"A", "2">>>>, <<>>)>>
         \o [i \in 1..n |-> SummaryLight(i, asc)] :
      n \in 1..MaxLarge, asc \in BOOLEAN }

\* the entities the entity tool is asked for: light.a without attributes,
\* light.b with a name, an array, a number and an unrelated attribute (its
\* table attributes not in table order) and with timestamps and context,
\* sensor.c with an unrelated attribute only, lights.a (a domain outside the
\* table) with a brightness and an empty name, fan.z without state
DetailPool ==
    { FullEntity(lightA, <<<<"o", "n">>>>, <<>>, FALSE, <<>>, <<>>, <<>>),
      FullEntity(lightB, <<<<"o", "f", "f">>>>,
                 <<AttrOf("rgb_color", <<"[", "1", ",", "2", "]">>, "array"),
                   Attr("icon", <<"m", "d", "i">>),
                   Attr("friendly_name", <<"A", " ", "b">>),
                   AttrOf("brightness", <<"2">>, "number")>>,
                 TRUE, <<<<"t", "2">>>>, <<<<"t", "1">>>>, <<<<"{", "}">>>>),
      FullEntity(sensorC, <<<<"A", "2">>>>, <<Attr("icon", <<"m", "d", "i">>)>>,
                 TRUE, <<<<"t", "2">>>>, <<>>, <<>>),
      FullEntity(lightsA, <<<<"o", "n">>>>,
                 <<AttrOf("brightness", <<"7">>, "number"),
                   Attr("friendly_name", <<>>)>>,
                 TRUE, <<>>, <<>>, <<>>),
      FullEntity(fanZ, <<>>, <<>>, TRUE, <<>>, <<>>, <<>>) }

\* the snapshots the tools are run on: the attribute-rich ones, the single
\* entities of the detail pool and the empty snapshot
ToolSnapshots == RichSnapshots \cup { <<e>> : e \in DetailPool } \cup {<<>>}

\* the fields arguments: absent, or one of these lists
FieldLists ==
    { <<>>,
      <<f_state>>,
      <<f_attributes>>,
      <<f_attrDot \o KeyChars("brightness")>>,
      <<f_attrDot \o KeyChars("icon"), f_state>>,
      <<<<"b", "o", "g", "u", "s">>, f_last_updated>>,
      <<f_attrDot \o <<"z", "z">>>>,
      <<f_attrDot>>,
      <<<<"b", "o", "g", "u", "s">>, f_attrDot \o <<"z", "z">>,
        f_attrDot \o KeyChars("icon"), f_state>>,
      <<f_attributes, f_attrDot \o <<"z", "z">>, f_context>>,
      <<f_last_changed, f_context, f_state,
        f_attrDot \o KeyChars("friendly_name"),
        f_attrDot \o KeyChars("rgb_color")>> }

\* the {q} segments: a, A, a%20, %20, %zz, z, entities
QueryWords == { <<"a">>, <<"A">>, <<"a", "%", "2", "0">>, <<"%", "2", "0">>, <<"%", "z", "z">>, <<"z">>,
                entities }

\* the {limit} segments: 1, 0, -1, x
LimitWords == { <<"1">>, <<"0">>, <<"-", "1">>, <<"x">> }

DomainWords == {d_light, d_sensor, d_fan}

\* the lists of path segments, by length
SegmentLists ==
    {<<>>, <<entities>>, <<search>>, <<domainWord>>, <<domainWord, entities>>}
    \cup { <<entities, w>> : w \in {lightA, lightB, fanZ, domainWord, entities} }
    \cup { <<search, q>> : q \in QueryWords }
    \cup { <<entities, w, v>> : w \in {lightA, domainWord},
                               v \in DomainWords \cup {detailed, summary} }
    \cup { <<search, q, l>> : q \in QueryWords, l \in LimitWords }
    \cup { <<entities, domainWord, d, v>> : d \in {d_light, d_fan},
                                          v \in {summary, detailed} }
    \cup { <<entities, lightA, d_light, summary>>,
           <<entities, lightB, detailed>>,
           <<search, <<"a">>, <<"1">>, summary>>,
           <<entities, domainWord, d_light, summary, detailed>> }

\* what precedes the segments: hass:  hass:/  hass://  hass:///  foo:  foo://
Prefixes == { hass \o <<":">>, hass \o <<":", "/">>, hass \o <<":", "/", "/">>,
              hass \o <<":", "/", "/", "/">>,
              foo \o <<":">>, foo \o <<":", "/", "/">> }

\* the request strings: every prefix before every segment list, and two
\* strings without a scheme (the empty string and entities/light.a)
URIs ==
    { p \o Join(segs, <<"/">>) : p \in Prefixes, segs \in SegmentLists }
    \cup { <<>>, entities \o <<"/">> \o lightA }

----------------------------------------------------------------------------
(* The state machine: one resource request at a time.                      *)
(*   pc        idle, awaiting (the handler is suspended on its fetch),     *)
(*             resume (the fetch has settled), done (the tool returned)    *)
(*   uri       the request string                                          *)
(*   call      the handler invocation the router made, or NoCall           *)
(*   fetches   the State Provider calls issued for this request            *)
(*   result    the ApiResponse of the fetch                                *)
(*   response  what the tool returned                                      *)
(* Every request starts from the idle state: the tool keeps nothing from   *)
(* one call to the next.                                                   *)

Init ==
    /\ pc = "idle"
    /\ uri = <<>>
    /\ call = NoCall
    /\ fetches = <<>>
    /\ result = NoResult
    /\ response = Doc
    /\ ProcessStarted

\* homeassistant_get_resource({uri}) up to the handler's await, or to its
\* return when nothing is awaited
Call(u) ==
    /\ pc = "idle"
    /\ uri' = u
    /\ result' = NoResult
    /\ LET d == Route(u)
       IN  IF d.call.handler = "none"
           THEN /\ call' = NoCall
                /\ fetches' = <<>>
                /\ response' = Catch(d.response)
                /\ pc' = "done"
           ELSE /\ call' = d.call
                /\ fetches' = HandlerFetches(d.call)
                /\ IF Len(HandlerFetches(d.call)) = 0
                   THEN /\ response' = Catch(EarlyResponse(d.call))
                        /\ pc' = "done"
                   ELSE /\ response' = Doc
                        /\ pc' = "awaiting"
    /\ UNCHANGED processVars

\* the fetch is answered from the provider's current entities
FetchSucceeds(snapshot) ==
    /\ pc = "awaiting"
    /\ result' = IF fetches[1].fn = "getAllStates"
                 THEN getAllStates(snapshot)
                 ELSE getHomeAssistantState(snapshot, fetches[1].entity_id)
    /\ pc' = "resume"
    /\ UNCHANGED <<uri, call, fetches, response>>
    /\ UNCHANGED processVars

\* the fetch fails (time-out, missing token): makeGetRequest's catch
FetchFails(message) ==
    /\ pc = "awaiting"
    /\ result' = handleApiError(message)
    /\ pc' = "resume"
    /\ UNCHANGED <<uri, call, fetches, response>>
    /\ UNCHANGED processVars

\* the fetch succeeds with a body that is no entity data (JSON null)
FetchReturnsNull ==
    /\ pc = "awaiting"
    /\ result' = ApiNull
    /\ pc' = "resume"
    /\ UNCHANGED <<uri, call, fetches, response>>
    /\ UNCHANGED processVars

\* the handler continues after its await and the tool returns
Resume ==
    /\ pc = "resume"
    /\ response' = Catch(HandlerFinish(call, result))
    /\ pc' = "done"
    /\ UNCHANGED <<uri, call, fetches, result>>
    /\ UNCHANGED processVars

\* the response has been delivered; nothing of the request is kept
Return ==
    /\ pc = "done"
    /\ pc' = "idle"
    /\ uri' = <<>>
    /\ call' = NoCall
    /\ fetches' = <<>>
    /\ result' = NoResult
    /\ response' = Doc
    /\ UNCHANGED processVars

Next ==
    \/ \E u \in URIs : Call(u)
    \/ \E snapshot \in Snapshots \cup LargeSnapshots \cup RichSnapshots
                        \cup { <<e>> : e \in DetailPool } :
          FetchSucceeds(snapshot)
    \/ \E message \in FailureMessages : FetchFails(message)
    \/ FetchReturnsNull
    \/ Resume
    \/ Return

Spec == Init /\ [][Next]_vars

----------------------------------------------------------------------------
(* The tools that answer with a summary or a projection of entities:       *)
(* homeassistant_domain_summary and homeassistant_get_entity_state.  They  *)
(* await one fetch like the resource handlers, but nothing catches what    *)
(* they throw.  A non-integer example_limit is a number the schema lets    *)
(* through, so the limit is kept in halves: exampleLimit2 = 2 * limit.     *)

\* example_limit: z.number().optional().default(3)
DefaultExampleLimit == 3

NoToolCall == [tool |-> "none", domain |-> <<>>, exampleLimit2 |-> 0,
               entity_id |-> <<>>, fields |-> <<>>, hasFields |-> FALSE,
               detailed |-> FALSE]

\* { entity_id, friendly_name: entity.attributes?.friendly_name || entity_id }
Example(e) == [entity_id |-> e.entity_id, friendly_name |-> NameOf(e)]

\* entity.state || "unknown"
StateKey(e) == IF Truthy(e.state) THEN e.state[1] ELSE unknown

\* stateExamples[state].length < example_limit, the limit in halves
BelowLimit(examples, limit2) == 2 * Len(examples) < limit2

\* AddToHistogram that keeps the latest entities as examples once the list
\* is full
RECURSIVE AddToHistogramKeepLatest(_, _, _)
AddToHistogramKeepLatest(hist, e, limit2) ==
    IF Len(hist) = 0
    THEN <<[state |-> StateKey(e), count |-> 1,
            examples |-> IF BelowLimit(<<>>, limit2) THEN <<Example(e)>>
                         ELSE <<>>]>>
    ELSE IF hist[1].state = StateKey(e)
    THEN <<[hist[1] EXCEPT
              !.count = @ + 1,
              !.examples = IF BelowLimit(@, limit2) THEN Append(@, Example(e))
                           ELSE IF Len(@) = 0 THEN @
                           ELSE Append(Tail(@), Example(e))]>>
         \o Tail(hist)
    ELSE <<hist[1]>> \o AddToHistogramKeepLatest(Tail(hist), e, limit2)

\* one entity enters stateCounts and stateExamples
RECURSIVE AddToHistogram(_, _, _)
AddToHistogram(hist, e, limit2) ==
    IF Len(hist) = 0
    THEN <<[state |-> StateKey(e), count |-> 1,
            examples |-> IF BelowLimit(<<>>, limit2) THEN <<Example(e)>>
                         ELSE <<>>]>>
    ELSE IF hist[1].state = StateKey(e)
    THEN <<[hist[1] EXCEPT
              !.count = @ + 1,
              !.examples = IF BelowLimit(@, limit2) THEN Append(@, Example(e))
                           ELSE @]>>
         \o Tail(hist)
    ELSE <<hist[1]>> \o AddToHistogram(Tail(hist), e, limit2)

\* the state distribution with its examples, states in first-seen order
RECURSIVE StateHistogram(_, _, _)
StateHistogram(hist, es, limit2) ==
    IF Len(es) = 0 THEN hist
    ELSE StateHistogram(AddToHistogram(hist, es[1], limit2), Tail(es), limit2)

\* homeassistant_domain_summary after its await
homeassistant_domain_summary(domain, limit2, res) ==
    IF ~res.success
    THEN formatErrorResponse("Failed to get domain summary: ", <<>>, res.message)
    ELSE IF res.isNull THEN NullData
    ELSE LET es == InDomain(res.data, domain)
         IN  IF Len(es) = 0
             THEN [Doc EXCEPT !.text = "No entities found for domain: ",
                              !.arg = domain]
             ELSE [Doc EXCEPT
                     !.text   = "# Domain Summary: ",
                     !.arg    = domain,
                     !.total  = Len(es),
                     !.states = StateHistogram(<<>>, es, limit2),
                     !.attributes = CommonAttributes(es)]

\* a member of a JavaScript object: a key with a value of a JSON kind or
\* undefined; an object value has members, any other value its text
Member(k, kind, val, members) ==
    [key |-> k, kind |-> kind, val |-> val, members |-> members]

Undefined(k) == Member(k, "undefined", <<>>, <<>>)

\* an optional string of the entity as the value of key k
OptString(k, opt) ==
    IF Len(opt) = 1 THEN Member(k, "string", opt[1], <<>>) ELSE Undefined(k)

\* entity.context as the value of key k
OptObject(k, opt) ==
    IF Len(opt) = 1 THEN Member(k, "object", opt[1], <<>>) ELSE Undefined(k)

AttrMember(a) == Member(a.key, a.kind, a.val, <<>>)

\* entity.attributes as a value
AttributesMember(e) ==
    IF e.hasAttributes
    THEN Member("attributes", "object", <<>>,
                [i \in 1..Len(e.attributes) |-> AttrMember(e.attributes[i])])
    ELSE Undefined("attributes")

\* AttributeValue that reads an attribute the entity lacks as null
AttributeValueOrNull(e, name) ==
    LET found == SelectSeq(e.attributes, LAMBDA a : a.key = name)
    IN  IF Len(found) > 0 THEN AttrMember(found[1])
        ELSE Member(name, "null", <<"n", "u", "l", "l">>, <<>>)

\* entity.attributes?.[name]
AttributeValue(e, name) ==
    LET found == SelectSeq(e.attributes, LAMBDA a : a.key = name)
    IN  IF Len(found) > 0 THEN AttrMember(found[1]) ELSE Undefined(name)

\* obj[key] = value: the value of an existing key is replaced in place, a
\* new key goes last
Assign(obj, m) ==
    IF \E i \in 1..Len(obj) : obj[i].key = m.key
    THEN [i \in 1..Len(obj) |-> IF obj[i].key = m.key THEN m ELSE obj[i]]
    ELSE Append(obj, m)

\* one step of fields.forEach in homeassistant_get_entity_state
ApplyField(filtered, entity, field) ==
    IF field = f_state
    THEN Assign(filtered, OptString("state", entity.state))
    ELSE IF field = f_attributes
    THEN Assign(filtered, AttributesMember(entity))
    ELSE IF StartsWith(field, f_attrDot) /\ Len(field) > 5
    THEN LET attrName == KeyNamed(SubSeq(field, 6, Len(field)))
             current  == SelectSeq(filtered, LAMBDA m : m.key = "attributes"
                                                        /\ m.kind = "object")
             members  == IF Len(current) = 0 THEN <<>> ELSE current[1].members
         IN  Assign(filtered,
                    Member("attributes", "object", <<>>,
                           Assign(members, AttributeValue(entity, attrName))))
    ELSE IF field = f_last_updated
    THEN Assign(filtered, OptString("last_updated", entity.last_updated))
    ELSE IF field = f_last_changed
    THEN Assign(filtered, OptString("last_changed", entity.last_changed))
    ELSE IF field = f_context
    THEN Assign(filtered, OptObject("context", entity.context))
    ELSE filtered

\* const filteredEntity = { entity_id }; fields.forEach(...)
RECURSIVE FilteredEntity(_, _, _)
FilteredEntity(filtered, entity, fields) ==
    IF Len(fields) = 0 THEN filtered
    ELSE FilteredEntity(ApplyField(filtered, entity, fields[1]), entity,
                        Tail(fields))

\* AddImportant that copies an attribute the entity lacks as null
RECURSIVE AddImportantOrNull(_, _, _)
AddImportantOrNull(lean, entity, names) ==
    IF Len(names) = 0 THEN lean
    ELSE AddImportantOrNull(
           IF AttributeValue(entity, names[1]).kind # "undefined"
           THEN Assign(lean, AttributeValue(entity, names[1]))
           ELSE Assign(lean, Member(names[1], "null", <<"n", "u", "l", "l">>, <<>>)),
           entity, Tail(names))

\* importantAttrs.forEach(attr => { if (entity.attributes?.[attr] !==
\* undefined) leanEntity[attr] = entity.attributes[attr] })
RECURSIVE AddImportant(_, _, _)
AddImportant(lean, entity, names) ==
    IF Len(names) = 0 THEN lean
    ELSE AddImportant(
           IF AttributeValue(entity, names[1]).kind # "undefined"
           THEN Assign(lean, AttributeValue(entity, names[1]))
           ELSE lean,
           entity, Tail(names))

\* the lean entity of homeassistant_get_entity_state
LeanEntity(entity_id, entity) ==
    AddImportant(<<Member("entity_id", "string", entity_id, <<>>),
                   OptString("state", entity.state),
                   AttributeValue(entity, "friendly_name")>>,
                 entity,
                 DOMAIN_IMPORTANT_ATTRIBUTES(DomainOf(entity_id)))

\* JSON.stringify(object, null, 2): a member whose value is undefined is
\* left out, in the object and in its attributes
ToJSON(obj) ==
    LET defined == SelectSeq(obj, LAMBDA m : m.kind # "undefined")
    IN  [i \in 1..Len(defined) |->
            [defined[i] EXCEPT !.members =
                SelectSeq(@, LAMBDA m : m.kind # "undefined")]]

\* UseFieldFilter that takes any supplied list, an empty one too
UseFieldFilterWhenSupplied(c) == c.hasFields

\* if (fields && fields.length > 0)
UseFieldFilter(c) == c.hasFields /\ Len(c.fields) > 0

\* homeassistant_get_entity_state after its await
homeassistant_get_entity_state(c, res) ==
    IF ~res.success
    THEN formatErrorResponse("Failed to get entity state: ", <<>>, res.message)
    ELSE IF res.isNull THEN NullData
    ELSE LET entity == res.data[1]
         IN  IF UseFieldFilter(c)
             THEN [Doc EXCEPT
                     !.text = "{filtered}",
                     !.object = ToJSON(FilteredEntity(
                                   <<Member("entity_id", "string", c.entity_id, <<>>)>>,
                                   entity, c.fields))]
             ELSE IF ~c.detailed
             THEN [Doc EXCEPT
                     !.text = "{lean}",
                     !.object = ToJSON(LeanEntity(c.entity_id, entity))]
             ELSE [Doc EXCEPT
                     !.text = "Entity: ",
                     !.arg = c.entity_id,
                     !.total = 1,
                     !.lines = <<[entity_id |-> c.entity_id,
                                  state |-> entity.state,
                                  name |-> LET fn == Lookup(entity.attributes, "friendly_name")
                                           IN  IF Truthy(fn) THEN fn[1]
                                               ELSE <<"U", "n", "k", "n", "o", "w", "n">>,
                                  attrs |-> SelectSeq(entity.attributes,
                                               LAMBDA a : a.key # "friendly_name")]>>]

\* the code of the called tool after its await
ToolFinish(c, res) ==
    IF c.tool = "homeassistant_domain_summary"
    THEN homeassistant_domain_summary(c.domain, c.exampleLimit2, res)
    ELSE homeassistant_get_entity_state(c, res)

\* the example_limit arguments, in halves: -1, 0, 1, 1.5, 2, 3 and 4
ExampleLimits2 == {-2, 0, 2, 3, 4, 6, 8}

ToolInit ==
    /\ pc = "idle"
    /\ uri = <<>>
    /\ call = NoToolCall
    /\ fetches = <<>>
    /\ result = NoResult
    /\ response = Doc
    /\ ProcessStarted

\* homeassistant_domain_summary({domain, example_limit}) up to its await;
\* an absent example_limit is 3
CallDomainSummary(domain, limitArg) ==
    /\ pc = "idle"
    /\ call' = [NoToolCall EXCEPT
                  !.tool = "homeassistant_domain_summary",
                  !.domain = domain,
                  !.exampleLimit2 = IF Len(limitArg) = 0
                                    THEN 2 * DefaultExampleLimit
                                    ELSE limitArg[1]]
    /\ fetches' = <<Fetch("getAllStates", <<>>)>>
    /\ pc' = "awaiting"
    /\ UNCHANGED <<uri, result, response>>
    /\ UNCHANGED processVars

\* homeassistant_get_entity_state({entity_id, fields, detailed}) up to its
\* await; an absent detailed is false
CallGetEntityState(entity_id, fieldsArg, detailedArg) ==
    /\ pc = "idle"
    /\ call' = [NoToolCall EXCEPT
                  !.tool = "homeassistant_get_entity_state",
                  !.entity_id = entity_id,
                  !.hasFields = Len(fieldsArg) = 1,
                  !.fields = IF Len(fieldsArg) = 1 THEN fieldsArg[1] ELSE <<>>,
                  !.detailed = IF Len(detailedArg) = 1 THEN detailedArg[1]
                               ELSE FALSE]
    /\ fetches' = <<Fetch("getHomeAssistantState", entity_id)>>
    /\ pc' = "awaiting"
    /\ UNCHANGED <<uri, result, response>>
    /\ UNCHANGED processVars

\* the tool continues after its await and returns, or throws
ToolResume ==
    /\ pc = "resume"
    /\ response' = ToolFinish(call, result)
    /\ pc' = "done"
    /\ UNCHANGED <<uri, call, fetches, result>>
    /\ UNCHANGED processVars

\* the response has been delivered; nothing of the call is kept
ToolReturn ==
    /\ pc = "done"
    /\ pc' = "idle"
    /\ call' = NoToolCall
    /\ fetches' = <<>>
    /\ result' = NoResult
    /\ response' = Doc
    /\ UNCHANGED uri
    /\ UNCHANGED processVars

ToolNext ==
    \/ \E domain \in {d_light, d_sensor, d_fan},
          limitArg \in {<<>>} \cup { <<h>> : h \in ExampleLimits2 } :
          CallDomainSummary(domain, limitArg)
    \/ \E entity_id \in {lightA, lightB, sensorC, lightsA, fanZ},
          fieldsArg \in {<<>>} \cup { <<fl>> : fl \in FieldLists },
          detailedArg \in {<<>>, <<TRUE>>, <<FALSE>>} :
          CallGetEntityState(entity_id, fieldsArg, detailedArg)
    \/ \E snapshot \in ToolSnapshots : FetchSucceeds(snapshot)
    \/ \E message \in FailureMessages : FetchFails(message)
    \/ FetchReturnsNull
    \/ ToolResume
    \/ ToolReturn

ToolSpec == ToolInit /\ [][ToolNext]_vars

----------------------------------------------------------------------------
(* The decision table of the URI surface, read off the request string:     *)
(* the segments are the non-empty pieces, cut at '/', of what follows      *)
(* "hass:".  It is what the claims about the router are stated against.    *)

IsHassURI(u) == StartsWith(u, hassProtocol)

\* the text before the first ':' when the string has a scheme
SchemeText(u) == SubSeq(u, 1, IndexOf(u, ":") - 1)

SegmentsAfterScheme(u) ==
    NonEmpty(Split(SubSeq(u, Len(hassProtocol) + 1, Len(u)), "/"))

Row(h, id, det, dom, q) ==
    [handler |-> h, entityId |-> id, detailed |-> det, domain |-> dom,
     query |-> q]

\* the handler invocation without the limit
CallKind(c) == Row(c.handler, c.entityId, c.detailed, c.domain, c.query)

\* the rows of the table that a segment list matches, as handler invocations
TableRows(segs) ==
    LET n == Len(segs)
        e == n >= 1 /\ segs[1] = entities
    IN  (IF e /\ n = 1
         THEN {Row("handleAllEntitiesResource", <<>>, FALSE, <<>>, <<>>)}
         ELSE {})
        \cup (IF e /\ n = 2
              THEN {Row("handleEntityResource", segs[2], FALSE, <<>>, <<>>)}
              ELSE {})
        \cup (IF e /\ n = 3 /\ segs[3] = detailed
              THEN {Row("handleEntityResource", segs[2], TRUE, <<>>, <<>>)}
              ELSE {})
        \cup (IF e /\ n = 3 /\ segs[2] = domainWord
              THEN {Row("handleDomainResource", <<>>, FALSE, segs[3], <<>>)}
              ELSE {})
        \cup (IF e /\ n = 4 /\ segs[2] = domainWord /\ segs[4] = summary
              THEN {Row("handleDomainSummaryResource", <<>>, FALSE, segs[3], <<>>)}
              ELSE {})
        \cup (IF n \in {2, 3} /\ segs[1] = search
                 /\ decodeURIComponent(segs[2]).ok
              THEN {Row("handleSearchResource", <<>>, FALSE, <<>>,
                        decodeURIComponent(segs[2]).val)}
              ELSE {})

\* the path shape matches a row, whatever the segments' contents
MatchesSomeRow(segs) ==
    \/ TableRows(segs) # {}
    \/ Len(segs) \in {2, 3} /\ segs[1] = search

\* every character is white space (the empty string included)
AllWhiteSpace(q) == \A i \in 1..Len(q) : q[i] = " "

\* the entity ids a response shows, in its lines and in its sections
ShownIds(r) ==
    { r.lines[i].entity_id : i \in 1..Len(r.lines) }
    \cup UNION { { r.sections[i].shown[j].entity_id :
                     j \in 1..Len(r.sections[i].shown) } :
                 i \in 1..Len(r.sections) }

\* the response carries no entity data
NoEntityData(r) ==
    /\ r.total = 0
    /\ r.lines = <<>>
    /\ r.sections = <<>>
    /\ r.states = <<>>
    /\ r.attributes = <<>>

\* the fetch of the request has settled and the handler has run on it
Handled(h) == pc = "done" /\ call.handler = h /\ Len(fetches) > 0

----------------------------------------------------------------------------
(* C1..C10: the router and the handlers' error and selection rules.        *)

\* C1: every hass: URI whose segments match a row of the decision table is
\* dispatched to that row's handler with that row's parameter.
C1_RouterFollowsTable ==
    (pc # "idle" /\ IsHassURI(uri) /\ TableRows(SegmentsAfterScheme(uri)) # {})
        => CallKind(call) \in TableRows(SegmentsAfterScheme(uri))

\* C2: a URI with another scheme is answered with the invalid-protocol error,
\* a hass: URI whose path shape matches no row (neither as the segments that
\* follow hass:// nor as the segments of the parsed pathname) with the
\* unknown-pattern error that echoes the URI, and in both cases nothing is
\* fetched.
C2_MalformedRejectedWithoutFetch ==
    /\ (pc = "done" /\ HasScheme(uri) /\ SchemeText(uri) # hass)
          => /\ response.isError
             /\ response.text = "Invalid protocol. Must use 'hass:' protocol"
             /\ fetches = <<>>
    /\ (pc # "idle" /\ IsHassURI(uri)
          /\ ~MatchesSomeRow(SegmentsAfterScheme(uri))
          /\ ~MatchesSomeRow(PathParts(ParseURL(uri))))
          => /\ fetches = <<>>
             /\ pc = "done"
             /\ response.isError
             /\ response.text = "Unknown resource URI pattern: "
             /\ response.arg = uri

\* C3: whatever the request string and whatever the fetch gives (data, a
\* failure, a body that is no entity data), the tool returns a text response;
\* no exception leaves homeassistant_get_resource.
C3_AlwaysTextualResponse ==
    pc = "done" => response.kind = "text" /\ response.text # ""

\* C3 witness: the handler threw on a body that is no entity data, and the
\* tool returned the error text.
C3_Witness ==
    /\ pc = "done"
    /\ result.isNull
    /\ call.handler = "handleDomainSummaryResource"
    /\ response.isError
    /\ response.text = "Error processing resource URI: "
    /\ response.message = "Cannot read properties of null"

\* C4: when the fetch fails, the handler returns an error response that embeds
\* the provider's failure message and shows no entity data.
C4_FailureIsWholeDocument ==
    (pc = "done" /\ call.handler # "none" /\ Len(fetches) > 0
       /\ ~result.success)
        => /\ response.isError
           /\ response.message = result.message
           /\ result.message # ""
           /\ NoEntityData(response)

\* C4 witness: a Search whose fetch timed out.
C4_Witness ==
    /\ Handled("handleSearchResource")
    /\ result = handleApiError("timeout of 10000ms exceeded")
    /\ response.isError
    /\ response.text = "Error searching entities: "

\* C5 as stated: every call of the router triggers exactly one fetch.
C5_ExactlyOneFetchPerCall ==
    pc = "done" => Len(fetches) = 1

\* C5 amended: a call triggers at most one fetch: exactly one when the URI is
\* dispatched to a handler (for Search, with a query that is not blank), and
\* none when the request is rejected before; a failed fetch is rendered as
\* one error and not retried.
C5_AtMostOneFetch ==
    /\ Len(fetches) <= 1
    /\ pc # "idle"
         => (Len(fetches) = 1
               <=> /\ call.handler # "none"
                   /\ ~(call.handler = "handleSearchResource"
                          /\ AllWhiteSpace(call.query)))
    /\ (pc = "done" /\ Len(fetches) = 1 /\ ~result.success)
         => response.isError /\ response.message = result.message

\* C5 witness: one fetch, which failed, and its error has been returned.
C5_Witness ==
    /\ Handled("handleDomainResource")
    /\ Len(fetches) = 1
    /\ ~result.success
    /\ response.isError

\* C6: a Search whose decoded query is empty or white space only is rejected
\* with an error, and no fetch is issued for that request.
C6_BlankQueryRejectedBeforeFetch ==
    (pc # "idle" /\ call.handler = "handleSearchResource"
       /\ AllWhiteSpace(call.query))
        => /\ fetches = <<>>
           /\ pc = "done"
           /\ response.isError
           /\ response.text = "Please provide a search query"

\* C6 witness: hass:search/%20 was rejected.
C6_Witness ==
    /\ pc = "done"
    /\ uri = hass \o <<":">> \o search \o <<"/", "%", "2", "0">>
    /\ call.handler = "handleSearchResource"
    /\ call.query = <<" ">>
    /\ response.text = "Please provide a search query"

\* the {limit} segment of a dispatched Search, optional
LimitSegment ==
    LET parts == PathParts(ParseURL(uri))
    IN  IF Len(parts) > 2 THEN <<parts[3]>> ELSE <<>>

\* the segment is a decimal numeral of a positive integer
IsPositiveNumeral(seg) ==
    /\ Len(seg) > 0
    /\ \A i \in 1..Len(seg) : seg[i] \in Digits
    /\ \E i \in 1..Len(seg) : seg[i] # "0"

\* C7: the limit Search applies is a positive integer: the {limit} segment
\* when it is a positive integer, 20 when it is absent or anything else.
C7_LimitIsPositive ==
    (pc # "idle" /\ call.handler = "handleSearchResource")
        => /\ call.limit >= 1
           /\ (Len(LimitSegment) = 1 /\ IsPositiveNumeral(LimitSegment[1]))
                => call.limit = DigitsPrefix(LimitSegment[1], 0)
           /\ (Len(LimitSegment) = 0 \/ ~IsPositiveNumeral(LimitSegment[1]))
                => call.limit = DefaultLimit

\* the entity has the domain prefix
HasDomainPrefix(e, d) ==
    /\ Len(e.entity_id) > Len(d)
    /\ SubSeq(e.entity_id, 1, Len(d)) = d
    /\ e.entity_id[Len(d) + 1] = "."

\* needle occurs in hay at some offset, letter case ignored
ContainsIgnoringCase(hay, needle) ==
    \E k \in 0..(Len(hay) - Len(needle)) :
        \A i \in 1..Len(needle) : LowerChar(hay[k + i]) = LowerChar(needle[i])

\* entity_id, friendly_name or state contains q; a field the entity lacks is
\* not tested
FieldContains(e, q) ==
    \/ ContainsIgnoringCase(e.entity_id, q)
    \/ \E i \in 1..Len(e.attributes) :
          /\ e.attributes[i].key = "friendly_name"
          /\ ContainsIgnoringCase(e.attributes[i].val, q)
    \/ Len(e.state) = 1 /\ ContainsIgnoringCase(e.state[1], q)

DataEntities == { result.data[i] : i \in 1..Len(result.data) }

GoodData == result.success /\ ~result.isNull

C9_DomainListingExact ==
    (Handled("handleDomainResource") /\ GoodData)
        => LET members == { e \in DataEntities : HasDomainPrefix(e, call.domain) }
           IN  IF members = {}
               THEN response.isError /\ ShownIds(response) = {}
               ELSE /\ ~response.isError
                    /\ ShownIds(response) = { e.entity_id : e \in members }
                    /\ Len(response.lines) = Cardinality(members)
                    /\ response.total = Cardinality(members)

\* C9 witness: light.a, lights.a and light.b; the listing of light shows
\* light.a and light.b.
C9_Witness ==
    /\ Handled("handleDomainResource")
    /\ call.domain = d_light
    /\ GoodData
    /\ { e.entity_id : e \in DataEntities } = {lightA, lightsA, lightB}
    /\ ShownIds(response) = {lightA, lightB}

\* the limit does not cut the matches short
LimitCoversAll == call.limit >= Len(result.data)

\* C10 as stated: Search selects exactly the entities one of whose fields
\* contains the query, letter case ignored.
C10_SearchSelectsByQuery ==
    (Handled("handleSearchResource") /\ GoodData /\ LimitCoversAll)
        => ShownIds(response)
             = { e.entity_id : e \in { x \in DataEntities :
                                         FieldContains(x, call.query) } }

\* the ids of the fetched entities one of whose fields contains q
MatchingIds(q) ==
    { e.entity_id : e \in { x \in DataEntities : FieldContains(x, q) } }

\* C10 amended: every entity Search shows has a field that contains the
\* query stripped of its leading and trailing white space, letter case
\* ignored; and when these entities are no more than the limit, Search shows
\* all of them.
C10_SearchSelectsByTrimmedQuery ==
    (Handled("handleSearchResource") /\ GoodData)
        => /\ ShownIds(response) \subseteq MatchingIds(trim(call.query))
           /\ Cardinality(MatchingIds(trim(call.query))) <= call.limit
                => ShownIds(response) = MatchingIds(trim(call.query))

\* C10 witness: query "a" over light.b (named "A b"), sensor.c (state "A2")
\* and sensor.d: the first two are selected, by name and by state.
C10_Witness ==
    /\ Handled("handleSearchResource")
    /\ call.query = <<"a">>
    /\ GoodData
    /\ LimitCoversAll
    /\ { e.entity_id : e \in DataEntities } = {lightB, sensorC, sensorD}
    /\ ShownIds(response) = {lightB, sensorC}

----------------------------------------------------------------------------
(* C11..C20: truncation, grouping, the overview, the summaries and the     *)
(* projections.                                                            *)

\* the fetched entities, in the provider's order, one of whose fields
\* contains q
MatchingSeq(q) == SelectSeq(result.data, LAMBDA e : FieldContains(e, q))

\* the per-domain counts of a response, added up
RECURSIVE SumCounts(_)
SumCounts(sections) ==
    IF Len(sections) = 0 THEN 0
    ELSE sections[1].count + SumCounts(Tail(sections))

\* the number of entity lines a response shows in its sections
RECURSIVE SumShown(_)
SumShown(sections) ==
    IF Len(sections) = 0 THEN 0
    ELSE Len(sections[1].shown) + SumShown(Tail(sections))

\* the smaller of two integers
Min(a, b) == IF a <= b THEN a ELSE b

\* C11: Search shows exactly the first `limit` matches in the provider's
\* order, never more than `limit` entities, and the per-domain counts of the
\* output add up to the number of entities shown.
C11_SearchTruncatesBeforeGrouping ==
    (Handled("handleSearchResource") /\ GoodData)
        => LET m == MatchingSeq(trim(call.query))
               k == Min(call.limit, Len(m))
           IN  /\ ShownIds(response) = { m[i].entity_id : i \in 1..k }
               /\ SumShown(response.sections) <= call.limit
               /\ SumCounts(response.sections) = SumShown(response.sections)

\* what precedes the first "." of an entity id (the whole id without one)
DomainPart(id) ==
    LET dots == { i \in 1..Len(id) : id[i] = "." }
    IN  IF dots = {} THEN id
        ELSE SubSeq(id, 1, (CHOOSE i \in dots : \A j \in dots : i <= j) - 1)

\* the entities of a list whose id has the domain d, in the list's order
OfDomain(es, d) == SelectSeq(es, LAMBDA e : DomainPart(e.entity_id) = d)

\* the entity ids of a list of entities or of rendered lines, in order
IdsOf(es) == [i \in 1..Len(es) |-> es[i].entity_id]

\* the list the handler groups: all fetched entities in the overview, the
\* entities the search kept (in the provider's order) in a search
GroupedInput ==
    IF call.handler = "handleAllEntitiesResource" THEN result.data
    ELSE SelectSeq(result.data, LAMBDA e : e.entity_id \in ShownIds(response))

\* C12: grouping by domain is a partition of the grouped list: the sections
\* have distinct domains, every entity's domain has a section, the section
\* counts add up to the size of the list, and a section holds exactly the
\* entities of its domain in their input order (the overview prints the
\* first ones of them).
C12_GroupingIsPartition ==
    ((Handled("handleAllEntitiesResource") \/ Handled("handleSearchResource"))
       /\ GoodData)
        => LET input == GroupedInput
               secs == response.sections
           IN  /\ \A i, j \in 1..Len(secs) :
                      secs[i].domain = secs[j].domain => i = j
               /\ \A k \in 1..Len(input) :
                      \E i \in 1..Len(secs) :
                          secs[i].domain = DomainPart(input[k].entity_id)
               /\ SumCounts(secs) = Len(input)
               /\ \A i \in 1..Len(secs) :
                      LET members == IdsOf(OfDomain(input, secs[i].domain))
                      IN  /\ secs[i].count = Len(members)
                          /\ secs[i].count > 0
                          /\ IdsOf(secs[i].shown)
                               = SubSeq(members, 1, Len(secs[i].shown))

\* C12 witness: a search over light.a, sensor.c, light.b, all matching "a",
\* gives the groups light (light.a, light.b) and sensor (sensor.c).
C12_Witness ==
    /\ Handled("handleSearchResource")
    /\ GoodData
    /\ IdsOf(result.data) = <<lightA, sensorC, lightB>>
    /\ Len(response.sections) = 2
    /\ IdsOf(response.sections[1].shown) = <<lightA, lightB>>
    /\ IdsOf(response.sections[2].shown) = <<sensorC>>

\* the link to the listing of a domain
DomainListingLink(d) ==
    <<"h", "a", "s", "s", ":", "/", "/">> \o entities \o <<"/">>
       \o domainWord \o <<"/">> \o d

\* the links of a response, as a set
LinkSet(r) == { r.links[i] : i \in 1..Len(r.links) }

\* C13: for each domain with n members the overview lists min(5, n)
\* entities; when n > 5 it announces n - 5 more and links to
\* hass://entities/domain/{domain}, and when n <= 5 it does neither.
C13_OverviewIsBoundedPreview ==
    (Handled("handleAllEntitiesResource") /\ GoodData)
        => \A i \in 1..Len(response.sections) :
              LET sec == response.sections[i]
                  n   == Len(OfDomain(result.data, sec.domain))
              IN  /\ sec.count = n
                  /\ Len(sec.shown) = Min(5, n)
                  /\ n > 5 => /\ sec.more = n - 5
                              /\ DomainListingLink(sec.domain) \in LinkSet(response)
                  /\ n <= 5 => /\ sec.more = 0
                               /\ DomainListingLink(sec.domain) \notin LinkSet(response)

\* C13 witness: the overview of sensor.c and six lights prints five of the
\* lights with a note of one more and the link, and sensor.c without a note.
C13_Witness ==
    /\ Handled("handleAllEntitiesResource")
    /\ GoodData
    /\ Len(result.data) = 7
    /\ Len(response.sections) = 2
    /\ response.sections[1].domain = d_light
    /\ Len(response.sections[1].shown) = 5
    /\ response.sections[1].more = 1
    /\ response.sections[2].domain = d_sensor
    /\ Len(response.sections[2].shown) = 1
    /\ response.sections[2].more = 0
    /\ LinkSet(response) = {DomainListingLink(d_light)}

\* the characters of entity ids in ascending order of their code
CodeOrder == <<".", "0", "1", "2", "3", "4", "5", "6", "7", "8", "9", "_",
               "a", "b", "c", "d", "e", "f", "g", "h", "i", "j", "k", "l",
               "m", "n", "o", "p", "q", "r", "s", "t", "u", "v", "w", "x",
               "y", "z">>

\* a is before b in lexicographic order
RECURSIVE LexLess(_, _)
LexLess(a, b) ==
    IF Len(b) = 0 THEN FALSE
    ELSE IF Len(a) = 0 THEN TRUE
    ELSE IF a[1] # b[1]
    THEN IndexOf(CodeOrder, a[1]) < IndexOf(CodeOrder, b[1])
    ELSE LexLess(Tail(a), Tail(b))

\* the five (or fewer) smallest ids of a set of ids
FiveSmallest(ids) ==
    { x \in ids : Cardinality({ y \in ids : LexLess(y, x) }) < 5 }

\* C14: the overview prints the domains in ascending alphabetical order and,
\* in each domain, the five entities with the smallest entity_id, whatever
\* the order of the fetched list.
C14_OverviewSortedPreview ==
    (Handled("handleAllEntitiesResource") /\ GoodData)
        => LET secs == response.sections
           IN  /\ \A i \in 1..(Len(secs) - 1) :
                      LexLess(secs[i].domain, secs[i + 1].domain)
               /\ \A i \in 1..Len(secs) :
                      { secs[i].shown[j].entity_id : j \in 1..Len(secs[i].shown) }
                        = FiveSmallest({ e.entity_id :
                              e \in { x \in DataEntities :
                                        DomainPart(x.entity_id) = secs[i].domain } })

\* the tool t has returned
ToolDone(t) == pc = "done" /\ call.tool = t

\* the fetched entities of the summarised domain, in the provider's order
SummarisedEntities ==
    SelectSeq(result.data, LAMBDA e : HasDomainPrefix(e, call.domain))

\* the state an entity is counted under
CountedState(e) ==
    IF Len(e.state) = 1 /\ Len(e.state[1]) > 0 THEN e.state[1] ELSE unknown

\* the entities of the summarised domain counted under state st
WithState(st) == SelectSeq(SummarisedEntities, LAMBDA e : CountedState(e) = st)

\* the counts of the histogram add up to the entities processed, each count
\* is the number of entities of its state, and the examples of a state are
\* the first entities of that state
HistogramCountsAndOrder ==
    /\ SumCounts(response.states) = Len(SummarisedEntities)
    /\ \A i \in 1..Len(response.states) :
          LET entry == response.states[i]
              same  == WithState(entry.state)
          IN  /\ entry.count = Len(same)
              /\ entry.count > 0
              /\ \A j \in 1..Len(response.states) :
                    response.states[j].state = entry.state => i = j
              /\ Len(entry.examples) <= Len(same)
              /\ IdsOf(entry.examples)
                   = IdsOf(SubSeq(same, 1, Len(entry.examples)))

WholeLimit(limit2) == IF limit2 <= 0 THEN 0 ELSE (limit2 + 1) \div 2

SummaryKeys ==
    UNION { { SummarisedEntities[i].attributes[j].key :
                j \in 1..Len(SummarisedEntities[i].attributes) } :
            i \in 1..Len(SummarisedEntities) }

\* the distinct values of attribute k over these entities: an object or an
\* array is told apart by its JSON text, null is no value
DistinctValues(k) ==
    UNION { { <<IF a.kind \in {"array", "object"} THEN "string" ELSE a.kind,
                a.val>> :
              a \in { SummarisedEntities[i].attributes[j] :
                        j \in { m \in 1..Len(SummarisedEntities[i].attributes) :
                                  /\ SummarisedEntities[i].attributes[m].key = k
                                  /\ SummarisedEntities[i].attributes[m].kind # "null" } } } :
            i \in 1..Len(SummarisedEntities) }

\* where attribute k is first seen: entity by entity, attribute by attribute
FirstSeen(k) ==
    LET places == { <<i, j>> \in (1..Len(SummarisedEntities)) \X (1..(MaxAttrs + 2)) :
                      /\ j <= Len(SummarisedEntities[i].attributes)
                      /\ SummarisedEntities[i].attributes[j].key = k }
        first  == CHOOSE p \in places :
                      \A q \in places : p[1] < q[1] \/ (p[1] = q[1] /\ p[2] <= q[2])
    IN  first[1] * (MaxAttrs + 3) + first[2]

\* attribute k goes before attribute m: more distinct values, or as many and
\* seen first
RanksBefore(k, m) ==
    \/ Cardinality(DistinctValues(k)) > Cardinality(DistinctValues(m))
    \/ /\ Cardinality(DistinctValues(k)) = Cardinality(DistinctValues(m))
       /\ FirstSeen(k) < FirstSeen(m)

\* C16: the attribute section of the domain summary shows at most 10
\* attributes, those with the most distinct values, in descending order of
\* that number with ties in first-seen order, and prints the values of an
\* attribute only when it has at most 5 of them.
C16_TopAttributesByDistinctValues ==
    (Handled("handleDomainSummaryResource") /\ GoodData /\ response.total > 0)
        => LET shown == response.attributes
               names == { shown[p].attr : p \in 1..Len(shown) }
           IN  /\ Len(shown) = Min(10, Cardinality(SummaryKeys))
               /\ names \subseteq SummaryKeys
               /\ \A p, q \in 1..Len(shown) :
                      p < q => RanksBefore(shown[p].attr, shown[q].attr)
               /\ \A k \in SummaryKeys \ names :
                      \A p \in 1..Len(shown) : RanksBefore(shown[p].attr, k)
               /\ \A p \in 1..Len(shown) :
                      LET values == DistinctValues(shown[p].attr)
                      IN  /\ shown[p].count = Cardinality(values)
                          /\ shown[p].listed <=> Cardinality(values) <= 5
                          /\ shown[p].listed
                                => { <<shown[p].values[v].kind, shown[p].values[v].val>> :
                                       v \in 1..Len(shown[p].values) } = values
                          /\ ~shown[p].listed => shown[p].values = <<>>

\* C16 witness: the summary of seven lights with 13 attribute keys shows 10
\* of them: a07 first (7 values, not printed), a05 with its 5 values
\* printed, a03 (arrays) last, ahead of friendly_name, which has 3 values
\* too but was seen later.
C16_Witness ==
    /\ Handled("handleDomainSummaryResource")
    /\ GoodData
    /\ response.total = 7
    /\ Cardinality(SummaryKeys) = 13
    /\ [p \in 1..Len(response.attributes) |-> response.attributes[p].attr]
         = <<"a07", "a08", "a09", "a10", "a11", "a12", "a06", "a05", "a04", "a03">>
    /\ ~response.attributes[1].listed
    /\ response.attributes[8].listed
    /\ Len(response.attributes[8].values) = 5
    /\ response.attributes[10].count = 3

\* the entity the entity tool fetched
FetchedEntity == result.data[1]

\* the entity tool has answered a request in lean mode from a fetched entity
LeanAnswered ==
    /\ ToolDone("homeassistant_get_entity_state")
    /\ GoodData
    /\ ~call.detailed
    /\ response.text = "{lean}"

\* the keys of an object, in order
KeysOf(obj) == [i \in 1..Len(obj) |-> obj[i].key]

\* the domains that are keys of the attribute table
TableDomains == {d_light, d_switch, d_binary_sensor, d_sensor, d_climate,
                 d_media_player, d_cover, d_fan, d_camera, d_automation,
                 d_scene, d_script}

\* the entity has an attribute of that name
HasAttribute(e, name) == \E i \in 1..Len(e.attributes) : e.attributes[i].key = name

\* the value of the entity's attribute of that name, as kind and text
AttributeOf(e, name) ==
    LET a == e.attributes[CHOOSE i \in 1..Len(e.attributes) :
                              e.attributes[i].key = name]
    IN  <<a.kind, a.val>>

\* the value of the member of that key, as kind and text
ValueAt(obj, k) ==
    LET m == obj[CHOOSE i \in 1..Len(obj) : obj[i].key = k]
    IN  <<m.kind, m.val>>

\* C17: the lean projection holds entity_id and state, friendly_name
\* exactly when and as the entity has it, and then exactly the attributes of
\* the table row of the entity's domain that the entity has, in table
\* order; for a domain outside the table nothing further.
C17_LeanProjection ==
    LeanAnswered
        => LET e      == FetchedEntity
               obj    == response.object
               row    == DOMAIN_IMPORTANT_ATTRIBUTES(DomainPart(e.entity_id))
               extras == SelectSeq(row, LAMBDA name : HasAttribute(e, name))
           IN  /\ KeysOf(obj)
                    = <<"entity_id">>
                      \o (IF Len(e.state) = 1 THEN <<"state">> ELSE <<>>)
                      \o (IF HasAttribute(e, "friendly_name")
                          THEN <<"friendly_name">> ELSE <<>>)
                      \o extras
               /\ ValueAt(obj, "entity_id") = <<"string", e.entity_id>>
               /\ Len(e.state) = 1 => ValueAt(obj, "state") = <<"string", e.state[1]>>
               /\ HasAttribute(e, "friendly_name")
                    => ValueAt(obj, "friendly_name") = AttributeOf(e, "friendly_name")
               /\ \A i \in 1..Len(extras) :
                      ValueAt(obj, extras[i]) = AttributeOf(e, extras[i])
               /\ DomainPart(e.entity_id) \notin TableDomains => extras = <<>>

\* C17 witness: the lean answer for light.b is entity_id, state,
\* friendly_name, brightness, rgb_color (table order, although the entity
\* has rgb_color first), without its icon.
C17_Witness ==
    /\ LeanAnswered
    /\ FetchedEntity.entity_id = lightB
    /\ HasAttribute(FetchedEntity, "icon")
    /\ KeysOf(response.object)
         = <<"entity_id", "state", "friendly_name", "brightness", "rgb_color">>

\* the call was answered with the field-filtered object
FilteredAnswered ==
    /\ ToolDone("homeassistant_get_entity_state")
    /\ response.text = "{filtered}"

\* the selectors of the call
Selectors == { call.fields[i] : i \in 1..Len(call.fields) }

\* the attribute names the attr.<name> selectors of the call spell
RequestedAttrs ==
    { KeyNamed(SubSeq(f, 6, Len(f))) :
        f \in { g \in Selectors : StartsWith(g, f_attrDot) /\ Len(g) > 5 } }

\* the entity's optional value that a top-level key of the output copies
TopLevelValue(e, k) ==
    CASE k = "state"        -> e.state
      [] k = "last_updated" -> e.last_updated
      [] k = "last_changed" -> e.last_changed
      [] k = "context"      -> e.context

\* the selector that names a top-level key of the output
SelectorOf(k) ==
    CASE k = "state"        -> f_state
      [] k = "last_updated" -> f_last_updated
      [] k = "last_changed" -> f_last_changed
      [] k = "context"      -> f_context

\* C18: the field-filtered output of homeassistant_get_entity_state starts
\* with entity_id; every other key is state, attributes, last_updated,
\* last_changed or context, each at most once, and is there only when a
\* selector of the call names it; an attribute is in the attributes object
\* only when the entity has it and the call selects it (by attr.<name> or by
\* attributes); every value in the output is the entity's own value, and a
\* selected value the entity has is in the output.
C18_FieldFilteredOutput ==
    FilteredAnswered =>
        LET obj == response.object
            e   == FetchedEntity
        IN  /\ Len(obj) >= 1
            /\ obj[1].key = "entity_id"
            /\ obj[1].val = call.entity_id
            /\ \A i, j \in 1..Len(obj) : obj[i].key = obj[j].key => i = j
            /\ \A i \in 2..Len(obj) :
                  \/ /\ obj[i].key \in {"state", "last_updated", "last_changed", "context"}
                     /\ SelectorOf(obj[i].key) \in Selectors
                     /\ TopLevelValue(e, obj[i].key) = <<obj[i].val>>
                  \/ /\ obj[i].key = "attributes"
                     /\ f_attributes \in Selectors \/ RequestedAttrs # {}
                     /\ \A m \in 1..Len(obj[i].members) :
                          LET a == obj[i].members[m]
                          IN  /\ HasAttribute(e, a.key)
                              /\ f_attributes \in Selectors \/ a.key \in RequestedAttrs
                              /\ <<a.kind, a.val>> = AttributeOf(e, a.key)
                              /\ \A n \in 1..Len(obj[i].members) :
                                    obj[i].members[n].key = a.key => n = m
            /\ \A k \in {"state", "last_updated", "last_changed", "context"} :
                  (SelectorOf(k) \in Selectors /\ TopLevelValue(e, k) # <<>>)
                  => \E i \in 2..Len(obj) : obj[i].key = k
            /\ \A k \in RequestedAttrs :
                  HasAttribute(e, k)
                  => \E i \in 2..Len(obj) :
                       /\ obj[i].key = "attributes"
                       /\ \E m \in 1..Len(obj[i].members) : obj[i].members[m].key = k

\* the selectors bogus, attr.zz, attr.icon, state on sensor.c, which has an
\* icon and no zz: the output is entity_id, attributes {icon}, state
C18_Witness ==
    /\ FilteredAnswered
    /\ call.fields = << <<"b", "o", "g", "u", "s">>, f_attrDot \o <<"z", "z">>,
                        f_attrDot \o KeyChars("icon"), f_state >>
    /\ call.entity_id = sensorC
    /\ KeysOf(response.object) = <<"entity_id", "attributes", "state">>
    /\ KeysOf(response.object[2].members) = <<"icon">>

\* the entity tool was called with fields = [] and the entity was fetched
EmptyFieldsAnswered ==
    /\ ToolDone("homeassistant_get_entity_state")
    /\ call.hasFields
    /\ call.fields = <<>>
    /\ result.success
    /\ ~result.isNull

LeanDetailAnswered ==
    /\ pc = "done"
    /\ call.handler = "handleEntityResource"
    /\ response.text = "# Entity: "
    /\ Len(response.lines) = 1

\* the marker that stands for a value that is not inlined
ComplexDataMarker ==
    <<"*", "[", "C", "o", "m", "p", "l", "e", "x", " ", "d", "a", "t", "a", "]", "*">>

\* C20: in the lean view of an entity no bullet of the attribute list is
\* friendly_name, and the bullet of an attribute whose value is an object or
\* an array shows the marker and not the value.
C20_LeanViewHidesComplexValues ==
    LeanDetailAnswered =>
        \A i \in 1..Len(response.lines[1].attrs) :
            LET bullet == response.lines[1].attrs[i]
            IN  /\ bullet.key # "friendly_name"
                /\ AttributeOf(FetchedEntity, bullet.key)[1] \in {"array", "object"}
                      => bullet.text = ComplexDataMarker

\* the half of C20 about friendly_name alone
C20_NoFriendlyNameBullet ==
    LeanDetailAnswered =>
        \A i \in 1..Len(response.lines[1].attrs) :
            response.lines[1].attrs[i].key # "friendly_name"

-----------------------------------------------------------------------------
(* The favorites of homeassistant_manage_favorites and                     *)
(* homeassistant_favorite_actions.  global.haFavorites is one Map for the  *)
(* whole process; entries holds its entry list in insertion order.  As in  *)
(* the Map of the language, delete and clear empty an entry and leave its  *)
(* place in the list, so that an iterator that is under way keeps its      *)
(* position.                                                               *)

\* the longest entry list, emptied places included
MaxSlots == 2

MapEntry(k, alias) == [entity_id |-> k, alias |-> alias, live |-> TRUE]

\* favorites.has(k)
MapHas(entries, k) ==
    \E i \in 1..Len(entries) : entries[i].live /\ entries[i].entity_id = k

\* favorites.size
MapSize(entries) == Cardinality({ i \in 1..Len(entries) : entries[i].live })

\* MapSet that appends an entry also when the key is there already
MapSetAppends(entries, k, alias) == Append(entries, MapEntry(k, alias))

\* favorites.set(k, v): the value of a key that is there is replaced in its
\* place, a new key goes last
MapSet(entries, k, alias) ==
    IF MapHas(entries, k)
    THEN [i \in 1..Len(entries) |->
            IF entries[i].live /\ entries[i].entity_id = k
            THEN MapEntry(k, alias) ELSE entries[i]]
    ELSE Append(entries, MapEntry(k, alias))

\* favorites.delete(k)
MapDelete(entries, k) ==
    [i \in 1..Len(entries) |->
        IF entries[i].entity_id = k THEN [entries[i] EXCEPT !.live = FALSE]
        ELSE entries[i]]

\* favorites.clear()
MapClear(entries) ==
    [i \in 1..Len(entries) |-> [entries[i] EXCEPT !.live = FALSE]]

\* Array.from(favorites.keys())
MapKeys(entries) ==
    LET kept == SelectSeq(entries, LAMBDA e : e.live)
    IN  [i \in 1..Len(kept) |-> kept[i].entity_id]

\* the iterator's next(): the place of the first entry after pos that is not
\* emptied, 0 when the iterator is exhausted
IteratorNext(entries, pos) ==
    LET rest == { i \in (pos + 1)..Len(entries) : entries[i].live }
    IN  IF rest = {} THEN 0 ELSE CHOOSE i \in rest : \A j \in rest : i <= j

ErrorReply(text, arg) == [Reply EXCEPT !.isError = TRUE, !.text = text, !.arg = arg]

SuccessReply(text, arg) == [Reply EXCEPT !.text = text, !.arg = arg]

\* if (!global.hasOwnProperty('haFavorites')) global.haFavorites = new Map()
EnsureFavorites(f) == IF f.exists THEN f ELSE [exists |-> TRUE, entries |-> <<>>]

\* homeassistant_manage_favorites up to its first await or its return: the
\* invocation and the map it leaves.  entity_id and alias are optional.
manage_favorites_start(operation, entity_id, alias, f) ==
    LET favorites == EnsureFavorites(f)
        r == [NoRequest EXCEPT !.tool = "homeassistant_manage_favorites",
                               !.operation = operation,
                               !.entity_id = entity_id, !.alias = alias]
        given == Truthy(entity_id)
    IN  CASE operation = "add" ->
               IF ~given
               THEN [request |-> [r EXCEPT !.response =
                         ErrorReply("entity_id is required for add operation", <<>>)],
                     favorites |-> favorites]
               ELSE [request |-> [r EXCEPT !.pc = "lookup"],
                     favorites |-> favorites]
          [] operation = "remove" ->
               IF ~given
               THEN [request |-> [r EXCEPT !.response =
                         ErrorReply("entity_id is required for remove operation", <<>>)],
                     favorites |-> favorites]
               ELSE IF MapHas(favorites.entries, entity_id[1])
               THEN [request |-> [r EXCEPT !.response =
                         SuccessReply("Removed from favorites", entity_id[1])],
                     favorites |-> [favorites EXCEPT
                                      !.entries = MapDelete(@, entity_id[1])]]
               ELSE [request |-> [r EXCEPT !.response =
                         ErrorReply("is not in favorites", entity_id[1])],
                     favorites |-> favorites]
          [] operation = "list" ->
               IF MapSize(favorites.entries) = 0
               THEN [request |-> [r EXCEPT !.response =
                         SuccessReply("No favorites saved", <<>>)],
                     favorites |-> favorites]
               ELSE LET first == IteratorNext(favorites.entries, 0)
                    IN  [request |-> [r EXCEPT
                             !.pc = "lookup",
                             !.count = MapSize(favorites.entries),
                             !.pos = first,
                             !.current = <<favorites.entries[first]>>],
                         favorites |-> favorites]
          [] operation = "clear" ->
               [request |-> [r EXCEPT !.response =
                     [SuccessReply("Cleared favorites", <<>>) EXCEPT
                        !.count = MapSize(favorites.entries)]],
                favorites |-> [favorites EXCEPT !.entries = MapClear(@)]]

\* the bullet of the list for the entry [entityId, info] of this turn of
\* the loop; the state and the name that the lookup gave are part of its
\* text only
ListBullet(entry) == [entity_id |-> entry.entity_id, alias |-> entry.alias]

\* homeassistant_manage_favorites after an await of getHomeAssistantState;
\* outcome is "ok" or "fail"
manage_favorites_resume(r, outcome, favorites) ==
    IF r.operation = "add"
    THEN IF outcome # "ok"
         THEN [request |-> [r EXCEPT !.pc = "done", !.response =
                   ErrorReply("not found or inaccessible", r.entity_id[1])],
               favorites |-> favorites]
         ELSE [request |-> [r EXCEPT !.pc = "done", !.response =
                   SuccessReply("Added to favorites", r.entity_id[1])],
               favorites |-> [favorites EXCEPT
                                !.entries = MapSet(@, r.entity_id[1], r.alias)]]
    ELSE \* list: the body of the for-of loop, then the iterator's next()
         LET rendered == Append(r.rendered,
                                ListBullet(r.current[1]))
             next     == IteratorNext(favorites.entries, r.pos)
         IN  IF next = 0
             THEN [request |-> [r EXCEPT
                       !.pc = "done", !.rendered = rendered,
                       !.pos = 0, !.current = <<>>,
                       !.response = [SuccessReply("Favorite entities", <<>>) EXCEPT
                                       !.count = r.count, !.lines = rendered]],
                   favorites |-> favorites]
             ELSE [request |-> [r EXCEPT
                       !.rendered = rendered, !.pos = next,
                       !.current = <<favorites.entries[next]>>],
                   favorites |-> favorites]

\* const service = action === "toggle" ? "toggle" : `turn_${action}`
ServiceOf(action) ==
    CASE action = "toggle" -> "toggle"
      [] action = "on"     -> "turn_on"
      [] action = "off"    -> "turn_off"

\* { entity_id, ...service_data }.entity_id: a member of service_data
\* replaces the member of the same key written before the spread
DataEntityId(entity_id, service_data) ==
    LET own == SelectSeq(service_data, LAMBDA m : m.key = "entity_id")
    IN  IF Len(own) = 0 THEN entity_id ELSE own[Len(own)].val

\* callHomeAssistantService(domain, service, data) as issued by the
\* operation for entity_id; its outcome is "pending" until the call
\* completes
ServiceCall(entity_id, action, service_data) ==
    [entity_id |-> entity_id, domain |-> DomainOf(entity_id),
     service |-> ServiceOf(action),
     target |-> DataEntityId(entity_id, service_data),
     outcome |-> "pending"]

\* the element of results for a completed call; a call that threw is
\* recorded by the catch block
OperationResult(entity_id, outcome) ==
    [entity_id |-> entity_id, success |-> (outcome = "ok"),
     message |-> CASE outcome = "ok"   -> "Success"
                   [] outcome = "fail" -> "failure"
                   [] OTHER            -> "Error: "]

\* results.filter(r => r.success).length
Successful(results) == Len(SelectSeq(results, LAMBDA x : x.success))

\* results.filter(r => !r.success).length
Failed(results) == Len(SelectSeq(results, LAMBDA x : ~x.success))

\* the summary both tools return
SummaryReply(text, results) ==
    [SuccessReply(text, <<>>) EXCEPT
        !.successful = Successful(results),
        !.failed = Failed(results),
        !.lines = results]

\* const bulkAction = action === 'toggle_all' ? 'toggle' : ...
BulkActionOf(action) ==
    CASE action = "toggle_all"  -> "toggle"
      [] action = "turn_on_all" -> "on"
      [] OTHER                  -> "off"

\* homeassistant_favorite_actions (toggle_all, turn_on_all, turn_off_all) up
\* to its first await or its return
favorite_actions_start(action, f) ==
    LET r == [NoRequest EXCEPT !.tool = "homeassistant_favorite_actions",
                               !.operation = action]
    IN  IF ~f.exists \/ MapSize(f.entries) = 0
        THEN [r EXCEPT !.response = ErrorReply("No favorites saved", <<>>)]
        ELSE LET favoriteEntities == MapKeys(f.entries)
             IN  [r EXCEPT
                    !.pc = "service",
                    !.favoriteEntities = favoriteEntities,
                    !.calls = <<ServiceCall(favoriteEntities[1],
                                            BulkActionOf(action), <<>>)>>]

\* favorite_actions_resume that leaves the loop at the first call that
\* does not succeed
favorite_actions_stop_at_failure(r, outcome) ==
    LET n       == Len(r.calls)
        calls   == [r.calls EXCEPT ![n].outcome = outcome]
        results == Append(r.results,
                          OperationResult(r.favoriteEntities[n], outcome))
    IN  IF n < Len(r.favoriteEntities) /\ outcome = "ok"
        THEN [r EXCEPT
                !.calls = Append(calls, ServiceCall(r.favoriteEntities[n + 1],
                                                    BulkActionOf(r.operation), <<>>)),
                !.results = results]
        ELSE [r EXCEPT
                !.pc = "done", !.calls = calls, !.results = results,
                !.response = SummaryReply("Bulk action on favorites", results)]

\* the tool after the await of its latest call: the result is pushed and
\* the loop goes on to the next favorite or ends
favorite_actions_resume(r, outcome) ==
    LET n       == Len(r.calls)
        calls   == [r.calls EXCEPT ![n].outcome = outcome]
        results == Append(r.results,
                          OperationResult(r.favoriteEntities[n], outcome))
    IN  IF n < Len(r.favoriteEntities)
        THEN [r EXCEPT
                !.calls = Append(calls, ServiceCall(r.favoriteEntities[n + 1],
                                                    BulkActionOf(r.operation), <<>>)),
                !.results = results]
        ELSE [r EXCEPT
                !.pc = "done", !.calls = calls, !.results = results,
                !.response = SummaryReply("Bulk action on favorites", results)]

\* if (entity_ids.length > 50)
MaxBulkEntities == 50

\* TooMany that lets a list of 51 pass
TooManyAbove51(entity_ids) == Len(entity_ids) > MaxBulkEntities + 1

\* entity_ids.length > 50
TooMany(entity_ids) == Len(entity_ids) > MaxBulkEntities

\* homeassistant_bulk_operations up to its first await or its return: in
\* parallel mode entity_ids.map(performOperation) issues every call before
\* the first await, in sequential mode the first call is issued
bulk_operations_start(entity_ids, action, service_data, parallel) ==
    LET r == [NoRequest EXCEPT !.tool = "homeassistant_bulk_operations",
                               !.operation = action,
                               !.entity_ids = entity_ids,
                               !.service_data = service_data,
                               !.parallel = parallel]
    IN  IF Len(entity_ids) = 0
        THEN [r EXCEPT !.response = ErrorReply("No entity IDs provided", <<>>)]
        ELSE IF TooMany(entity_ids)
        THEN [r EXCEPT !.response = ErrorReply(
                 "Too many entities (max 50 allowed for bulk operations)", <<>>)]
        ELSE IF parallel
        THEN [r EXCEPT
                !.pc = "service",
                !.calls = [i \in 1..Len(entity_ids) |->
                             ServiceCall(entity_ids[i], action, service_data)]]
        ELSE [r EXCEPT
                !.pc = "service",
                !.calls = <<ServiceCall(entity_ids[1], action, service_data)>>]

\* the call of place k completes.  In parallel mode Promise.all resolves
\* when the last call has completed, with the results in the order of the
\* promises; in sequential mode the result is pushed and the loop goes on.
bulk_operations_resume(r, k, outcome) ==
    LET calls == [r.calls EXCEPT ![k].outcome = outcome]
    IN  IF r.parallel
        THEN IF \E i \in 1..Len(calls) : calls[i].outcome = "pending"
             THEN [r EXCEPT !.calls = calls]
             ELSE LET results == [i \in 1..Len(calls) |->
                                    OperationResult(r.entity_ids[i], calls[i].outcome)]
                  IN  [r EXCEPT
                         !.pc = "done", !.calls = calls, !.results = results,
                         !.response = SummaryReply("Bulk operation completed", results)]
        ELSE LET results == Append(r.results,
                                   OperationResult(r.entity_ids[k], outcome))
             IN  IF k < Len(r.entity_ids)
                 THEN [r EXCEPT
                         !.calls = Append(calls, ServiceCall(r.entity_ids[k + 1],
                                                             r.operation, r.service_data)),
                         !.results = results]
                 ELSE [r EXCEPT
                         !.pc = "done", !.calls = calls, !.results = results,
                         !.response = SummaryReply("Bulk operation completed", results)]

-----------------------------------------------------------------------------
(* The favorites tools as state machines.  An invocation runs without      *)
(* interruption from one await to the next; between two awaits of one      *)
(* invocation any other invocation may start, continue or finish.  An      *)
(* invocation that reaches an await joins requests; one that returns is    *)
(* kept in returned until the next one begins or returns.                  *)

allVars == <<vars, processVars>>

\* the entity ids the favorites tools are called with; light.x is in no
\* snapshot of Home Assistant
lightX == <<"l", "i", "g", "h", "t", ".", "x">>

\* the arguments of homeassistant_manage_favorites: operation, entity_id
\* (absent or given) and alias
FavoriteCalls ==
    { <<"add", <<id>>, <<>>>> : id \in {lightA, fanZ, lightX} }
    \cup { <<"add", <<>>, <<>>>>, <<"add", <<lightA>>, <<<<"x">>>>>> }
    \cup { <<"remove", <<id>>, <<>>>> : id \in {lightA, fanZ} }
    \cup { <<"remove", <<>>, <<>>>>, <<"list", <<>>, <<>>>>,
           <<"clear", <<>>, <<>>>> }

\* the calls that reach no await
CallsWithoutAwait == { c \in FavoriteCalls : c[1] \in {"remove", "clear"} }

FavoriteActions == {"toggle_all", "turn_on_all", "turn_off_all"}

\* how a state lookup may end: light.x is not found, the others are found
\* unless the request fails
LookupOutcomes(id) == IF id = lightX THEN {"fail"} ELSE {"ok", "fail"}

\* how a service call may end: with success, with a failure that
\* callHomeAssistantService reports, or with an exception
ServiceOutcomes == {"ok", "fail", "throw"}

\* the invocations at an await are a bag: they have no order among them
InFlight == BagToSet(requests)

\* invocation r goes on as s: to its next await, or to its return
Continue(r, s) ==
    LET others == requests (-) SetToBag({r})
    IN  IF s.pc = "done"
        THEN /\ requests' = others
             /\ returned' = s
        ELSE /\ requests' = others (+) SetToBag({s})
             /\ UNCHANGED returned

\* a new invocation s has run to its first await or to its return
Begin(s) ==
    IF s.pc = "done"
    THEN /\ returned' = s
         /\ UNCHANGED requests
    ELSE /\ requests' = requests (+) SetToBag({s})
         /\ returned' = NoRequest

\* a call of homeassistant_manage_favorites arrives; of the operations
\* that await, one invocation each is in flight at a time
ManageFavorites(operation, entity_id, alias) ==
    /\ \A r \in InFlight : r.operation # operation
    /\ LET s == manage_favorites_start(operation, entity_id, alias, haFavorites)
       IN  /\ Begin(s.request)
           /\ haFavorites' = s.favorites
    /\ UNCHANGED <<vars, serverVars>>

\* the entity the invocation is looking up
LookedUp(r) == IF r.operation = "add" THEN r.entity_id[1] ELSE r.current[1].entity_id

\* the getHomeAssistantState that an invocation awaits completes and the
\* invocation runs to its next await or to its return
LookupReturns(outcome) ==
    \E r \in InFlight :
        /\ r.pc = "lookup"
        /\ outcome \in LookupOutcomes(LookedUp(r))
        /\ LET s == manage_favorites_resume(r, outcome, haFavorites)
           IN  /\ Len(s.favorites.entries) <= MaxSlots
               /\ Continue(r, s.request)
               /\ haFavorites' = s.favorites
        /\ UNCHANGED <<vars, serverVars>>

FavNext ==
    \/ \E c \in FavoriteCalls : ManageFavorites(c[1], c[2], c[3])
    \/ \E o \in {"ok", "fail"} : LookupReturns(o)

FavSpec == Init /\ [][FavNext]_allVars

-----------------------------------------------------------------------------
(* homeassistant_favorite_actions (toggle_all, turn_on_all, turn_off_all)  *)
(* as a state machine: one invocation at a time, while removes and clears  *)
(* of homeassistant_manage_favorites come in between its awaits.  The      *)
(* favorites at the start are those that earlier adds have left.           *)

\* the favorites maps to start from: none, an empty one, light.a, fan.z
\* before light.a, and fan.z after a light.a that was removed
FavoriteMaps ==
    { [exists |-> FALSE, entries |-> <<>>] }
    \cup { [exists |-> TRUE, entries |-> e] :
             e \in { <<>>,
                     MapSet(<<>>, lightA, <<>>),
                     MapSet(MapSet(<<>>, fanZ, <<>>), lightA, <<>>),
                     MapDelete(MapSet(MapSet(<<>>, lightA, <<>>), fanZ, <<>>),
                               lightA) } }

ActionInit ==
    /\ pc = "idle"
    /\ uri = <<>>
    /\ call = NoCall
    /\ fetches = <<>>
    /\ result = NoResult
    /\ response = Doc
    /\ haFavorites \in FavoriteMaps
    /\ requests = EmptyBag
    /\ returned = NoRequest
    /\ env = NoEnv
    /\ servers = [s \in Sessions |-> NoServer]
    /\ sent = NoSent

\* a call of homeassistant_favorite_actions arrives
FavoriteAction(action) ==
    /\ requests = EmptyBag
    /\ Begin(favorite_actions_start(action, haFavorites))
    /\ UNCHANGED <<vars, serverVars, haFavorites>>

\* the service call that the invocation awaits completes
FavoriteServiceReturns(outcome) ==
    \E r \in InFlight :
        /\ r.tool = "homeassistant_favorite_actions"
        /\ r.pc = "service"
        /\ Continue(r, favorite_actions_resume(r, outcome))
        /\ UNCHANGED <<vars, serverVars, haFavorites>>

ActionNext ==
    \/ \E a \in FavoriteActions : FavoriteAction(a)
    \/ \E o \in ServiceOutcomes : FavoriteServiceReturns(o)
    \/ \E c \in CallsWithoutAwait : ManageFavorites(c[1], c[2], c[3])

ActionSpec == ActionInit /\ [][ActionNext]_allVars

-----------------------------------------------------------------------------
(* homeassistant_bulk_operations as a state machine.  Its invocations      *)
(* share no state, so one is run at a time.                                *)

DigitChars == <<"0", "1", "2", "3", "4", "5", "6", "7", "8", "9">>

\* the decimal numeral of a number below 100
Numeral(n) ==
    IF n < 10 THEN <<DigitChars[n + 1]>>
    ELSE <<DigitChars[(n \div 10) + 1], DigitChars[(n % 10) + 1]>>

\* light.1, light.2, ..., light.n
LightIds(n) == [i \in 1..n |-> <<"l", "i", "g", "h", "t", ".">> \o Numeral(i)]

\* the entity_ids arguments: none, one, two, three with a repetition, the
\* most that is allowed and one more
BulkLists ==
    { <<>>, <<lightA>>, <<lightA, fanZ>>, <<fanZ, lightA, fanZ>>,
      LightIds(MaxBulkEntities), LightIds(MaxBulkEntities + 1) }

\* the service_data arguments: absent, a brightness, an entity_id
ServiceData ==
    { <<>>,
      <<[key |-> "brightness", val |-> <<"2">>]>>,
      <<[key |-> "entity_id", val |-> lightX]>> }

\* parallel calls complete in any order when they are at most this many,
\* and in the order of their issue when they are more
MaxShuffled == 3

\* how the service call for an entity may end; the calls for light.1,
\* light.2, ... succeed
ServiceOutcomesFor(id) ==
    IF id \in {lightA, fanZ} THEN ServiceOutcomes ELSE {"ok"}

\* a call of homeassistant_bulk_operations arrives
BulkOperations(entity_ids, action, service_data, parallel) ==
    /\ requests = EmptyBag
    /\ Begin(bulk_operations_start(entity_ids, action, service_data, parallel))
    /\ UNCHANGED <<vars, serverVars, haFavorites>>

\* the service call of place k of the invocation completes and the
\* invocation runs on
BulkServiceReturns(k, outcome) ==
    \E r \in InFlight :
        /\ r.tool = "homeassistant_bulk_operations"
        /\ r.pc = "service"
        /\ k \in 1..Len(r.calls)
        /\ r.calls[k].outcome = "pending"
        /\ outcome \in ServiceOutcomesFor(r.calls[k].entity_id)
        /\ \/ Len(r.calls) <= MaxShuffled
           \/ \A j \in 1..(k - 1) : r.calls[j].outcome # "pending"
        /\ Continue(r, bulk_operations_resume(r, k, outcome))
        /\ UNCHANGED <<vars, serverVars, haFavorites>>

BulkNext ==
    \/ \E ids \in BulkLists, a \in {"on", "off", "toggle"},
          d \in ServiceData, p \in BOOLEAN : BulkOperations(ids, a, d, p)
    \/ \E k \in 1..MaxBulkEntities, o \in ServiceOutcomes :
          BulkServiceReturns(k, o)

BulkSpec == Init /\ [][BulkNext]_allVars

-----------------------------------------------------------------------------
(* The servers of the process.  A server is created per session, from the  *)
(* session's config; creating it writes the config to process.env, and     *)
(* every request to Home Assistant reads process.env when it is made.      *)
(* tool() of the MCP server refuses a name that is already registered.     *)

\* the configs of the sessions
Configs ==
    { [homeAssistantUrl |-> "http://ha-a:8123", homeAssistantToken |-> "token-a"],
      [homeAssistantUrl |-> "http://ha-b:8123", homeAssistantToken |-> "token-b"] }

MinimalTools ==
    <<"homeassistant_api", "homeassistant_get_state",
      "homeassistant_list_entities">>

BasicTools ==
    <<"homeassistant_api_status", "homeassistant_get_entity_state",
      "homeassistant_entity_action", "homeassistant_list_entities",
      "homeassistant_get_version", "homeassistant_call_service",
      "homeassistant_bulk_operations", "homeassistant_manage_favorites",
      "homeassistant_favorite_actions", "homeassistant_validate_config",
      "homeassistant_system_health">>

AutomationTools ==
    <<"homeassistant_list_automations", "homeassistant_toggle_automation",
      "homeassistant_trigger_automation", "homeassistant_list_scenes",
      "homeassistant_activate_scene", "homeassistant_list_scripts",
      "homeassistant_run_script", "homeassistant_list_input_booleans",
      "homeassistant_toggle_input_boolean">>

HistoryTools ==
    <<"homeassistant_get_entity_history", "homeassistant_get_error_log",
      "homeassistant_get_logbook", "homeassistant_get_events",
      "homeassistant_check_config", "homeassistant_get_statistics">>

DeviceTools ==
    <<"homeassistant_control_lights", "homeassistant_control_climate",
      "homeassistant_control_media_player", "homeassistant_control_covers",
      "homeassistant_get_devices_by_type", "homeassistant_send_notification">>

SystemTools ==
    <<"homeassistant_system_info", "homeassistant_render_template",
      "homeassistant_list_areas", "homeassistant_list_devices",
      "homeassistant_list_integrations", "homeassistant_restart_service",
      "homeassistant_supervisor_info", "homeassistant_list_addons",
      "homeassistant_search_entities">>

ResourceTools ==
    <<"homeassistant_get_resource", "homeassistant_list_resources">>

\* the elements of a sequence
Range(seq) == { seq[i] : i \in 1..Len(seq) }

\* server.tool(name, ...): the registration so far is reg; a name that is
\* already registered makes tool() throw
server_tool(reg, name) ==
    IF name \in Range(reg.names)
    THEN [reg EXCEPT !.thrown = TRUE]
    ELSE [reg EXCEPT !.names = Append(@, name)]

\* the server.tool calls of one register function, in their order; the
\* first that throws ends the function and what called it
RECURSIVE RegisterTools(_, _)
RegisterTools(reg, names) ==
    IF reg.thrown \/ Len(names) = 0 THEN reg
    ELSE RegisterTools(server_tool(reg, Head(names)), Tail(names))

registerMinimalTools(reg) == RegisterTools(reg, MinimalTools)

registerBasicTools(reg) == RegisterTools(reg, BasicTools)

registerAutomationTools(reg) == RegisterTools(reg, AutomationTools)

registerHistoryTools(reg) == RegisterTools(reg, HistoryTools)

registerDeviceTools(reg) == RegisterTools(reg, DeviceTools)

registerSystemTools(reg) == RegisterTools(reg, SystemTools)

registerResourceTools(reg) == RegisterTools(reg, ResourceTools)

\* the six register calls in a row
RegisterAllTools(reg) ==
    registerResourceTools(
      registerSystemTools(
        registerDeviceTools(
          registerHistoryTools(
            registerAutomationTools(
              registerBasicTools(reg))))))

\* process.env after the assignments at the head of the create functions
SetEnv(config) ==
    [HOME_ASSISTANT_URL |-> config.homeAssistantUrl,
     HOME_ASSISTANT_TOKEN |-> config.homeAssistantToken]

\* the sessions that have a server
Created == { s \in Sessions : servers[s].created }

\* a process runs one entry point
EntryIs(entry) == \A s \in Created : servers[s].entry = entry

\* createMcpServer({ sessionId, config }) of the stateful entry point
createMcpServer(sessionId, config) ==
    /\ ~servers[sessionId].created
    /\ EntryIs("createMcpServer")
    /\ env' = SetEnv(config)
    /\ LET reg == registerMinimalTools([names |-> <<>>, thrown |-> FALSE])
       IN  servers' = [servers EXCEPT ![sessionId] =
                         [created |-> TRUE, entry |-> "createMcpServer",
                          config |-> SetEnv(config), tools |-> reg.names,
                          timer |-> IF reg.thrown THEN "none" ELSE "pending",
                          loadError |-> FALSE]]
    /\ UNCHANGED <<vars, haFavorites, requests, returned, sent>>

\* the callback of setTimeout(..., 1000) of a server runs
DeferredLoad(sessionId) ==
    /\ servers[sessionId].timer = "pending"
    /\ LET reg == RegisterAllTools([names |-> servers[sessionId].tools,
                                    thrown |-> FALSE])
       IN  servers' = [servers EXCEPT ![sessionId].tools = reg.names,
                                      ![sessionId].timer = "fired",
                                      ![sessionId].loadError = reg.thrown]
    /\ UNCHANGED <<vars, haFavorites, requests, returned, env, sent>>

\* createStatelessServer({ config }) of the stateless entry point
createStatelessServer(sessionId, config) ==
    /\ ~servers[sessionId].created
    /\ EntryIs("createStatelessServer")
    /\ env' = SetEnv(config)
    /\ LET reg == RegisterAllTools([names |-> <<>>, thrown |-> FALSE])
       IN  /\ ~reg.thrown
           /\ servers' = [servers EXCEPT ![sessionId] =
                            [created |-> TRUE, entry |-> "createStatelessServer",
                             config |-> SetEnv(config), tools |-> reg.names,
                             timer |-> "none", loadError |-> FALSE]]
    /\ UNCHANGED <<vars, haFavorites, requests, returned, sent>>

\* tools whose handler begins with a request to Home Assistant: one of
\* the minimal set, one of the basic set, one of the resource set
CalledTools ==
    {"homeassistant_api", "homeassistant_api_status",
     "homeassistant_get_resource"}

\* a tool of the server of a session is called and makes its request: the
\* URL and the token are those of process.env at that moment, and without
\* a token nothing is sent
ToolCall(sessionId, name) ==
    /\ servers[sessionId].created
    /\ name \in Range(servers[sessionId].tools)
    /\ sent' = IF env.HOME_ASSISTANT_TOKEN = "" THEN sent
               ELSE [session |-> sessionId, tool |-> name,
                     url |-> env.HOME_ASSISTANT_URL,
                     token |-> env.HOME_ASSISTANT_TOKEN]
    /\ UNCHANGED <<vars, haFavorites, requests, returned, env, servers>>

ServerNext ==
    \/ \E s \in Sessions, c \in Configs : createMcpServer(s, c)
    \/ \E s \in Sessions : DeferredLoad(s)
    \/ \E s \in Sessions, c \in Configs : createStatelessServer(s, c)
    \/ \E s \in Sessions, t \in CalledTools : ToolCall(s, t)

ServerSpec == Init /\ [][ServerNext]_allVars

(***************************************************************************)
(* C21..C30                                                                *)
(***************************************************************************)

\* the EntityDetailVerbose resource was answered
VerboseDetailAnswered ==
    /\ pc = "done"
    /\ call.handler = "handleEntityResource"
    /\ response.text = "# Entity (Detailed): "
    /\ Len(response.lines) = 1

\* the half of C21 about completeness: the bullets of the detailed view are
\* the attributes of the entity, one bullet each
C21_EveryAttributeRendered ==
    VerboseDetailAnswered =>
        LET bullets == response.lines[1].attrs
            attrs   == FetchedEntity.attributes
        IN  /\ Len(bullets) = Len(attrs)
            /\ \A i \in 1..Len(attrs) :
                  \E j \in 1..Len(bullets) : bullets[j].key = attrs[i].key

\* C21: in the detailed view of an entity every attribute of the entity has
\* a bullet, and the bullets are in ascending alphabetical order of their
\* keys.
C21_VerboseSortedByKey ==
    VerboseDetailAnswered =>
        LET bullets == response.lines[1].attrs
            attrs   == FetchedEntity.attributes
        IN  /\ Len(bullets) = Len(attrs)
            /\ \A i \in 1..Len(attrs) :
                  \E j \in 1..Len(bullets) : bullets[j].key = attrs[i].key
            /\ \A i, j \in 1..Len(bullets) :
                  (i < j /\ bullets[i].key \in KnownKeys /\ bullets[j].key \in KnownKeys)
                  => ~LexLess(KeyChars(bullets[j].key), KeyChars(bullets[i].key))

\* the entity ids that are favorites
Favorites(f) == { f.entries[i].entity_id : i \in { j \in 1..Len(f.entries) : f.entries[j].live } }

\* the step is one in which an invocation of the tool returns: it began and
\* returned at once, or it left the invocations at an await
Returns(tool) ==
    /\ returned'.tool = tool
    /\ \/ requests' = requests /\ <<haFavorites, returned>>' # <<haFavorites, returned>>
       \/ BagCardinality(requests') < BagCardinality(requests)

\* C22: every step keeps one entry per favorite.  The set of favorites
\* changes only in a step in which homeassistant_manage_favorites returns
\* without error: an add, whose lookup has succeeded, puts in its entity and
\* nothing else; a remove takes out its entity and nothing else; a clear
\* empties the map and reports the number it held.  A step in which the tool
\* returns an error (no entity_id, failed lookup, remove of a non-favorite)
\* leaves the map as it was.
C22_FavoritesFollowOperations ==
    [][ LET before == Favorites(haFavorites)
            after  == Favorites(haFavorites')
            r      == returned'
        IN  /\ MapSize(haFavorites'.entries) = Cardinality(after)
            /\ before # after =>
                  /\ Returns("homeassistant_manage_favorites")
                  /\ ~r.response.isError
                  /\ r.operation \in {"add", "remove", "clear"}
            /\ Returns("homeassistant_manage_favorites") =>
                  IF r.response.isError
                  THEN haFavorites'.entries = haFavorites.entries
                  ELSE CASE r.operation = "add" ->
                              /\ after = before \cup {r.entity_id[1]}
                              /\ \E q \in InFlight :
                                    /\ q.operation = "add"
                                    /\ q.entity_id = r.entity_id
                                    /\ q \notin BagToSet(requests')
                         [] r.operation = "remove" ->
                              /\ r.entity_id[1] \in before
                              /\ after = before \ {r.entity_id[1]}
                         [] r.operation = "clear" ->
                              /\ after = {}
                              /\ r.response.count = Cardinality(before)
                         [] r.operation = "list" -> after = before
      ]_allVars

\* light.a has been added again, with an alias, while light.a and fan.z
\* were favorites: it keeps its one entry, in its place
C22_Witness ==
    /\ returned.tool = "homeassistant_manage_favorites"
    /\ returned.operation = "add"
    /\ returned.entity_id = <<lightA>>
    /\ ~returned.response.isError
    /\ Len(haFavorites.entries) = 2
    /\ MapKeys(haFavorites.entries) = <<lightA, fanZ>>
    /\ haFavorites.entries[1].alias = <<<<"x">>>>

\* a list of the favorites has returned with its header and its bullets
ListReturned ==
    /\ returned.tool = "homeassistant_manage_favorites"
    /\ returned.operation = "list"
    /\ returned.response.text = "Favorite entities"

\* C30: the list of the favorites has as many bullets as its header says,
\* which is the number of favorites when the list started, and no bullet
\* twice; all its bullets were favorites when it started only if this holds.
C30_ListIsConsistentSnapshot ==
    ListReturned =>
        LET bullets == returned.response.lines
        IN  /\ Len(bullets) = returned.response.count
            /\ \A i, j \in 1..Len(bullets) :
                  bullets[i].entity_id = bullets[j].entity_id => i = j

\* a list with more bullets than its header says: one of them was added
\* after the list had started
ListShowsLaterFavorite ==
    ListReturned /\ Len(returned.response.lines) > returned.response.count

\* a list with fewer bullets than its header says
ListMissesFavorite ==
    ListReturned /\ Len(returned.response.lines) < returned.response.count


\* the invocations of the tool, at an await or just returned
Invocations(tool) == { r \in InFlight \cup {returned} : r.tool = tool }

\* C23: an invocation of homeassistant_bulk_operations with no entity id or
\* with more than 50 has returned an error and has issued no service call;
\* one with 1 to 50 entity ids has issued a call and is no error.
C23_BulkLimitBeforeAnyCall ==
    \A r \in Invocations("homeassistant_bulk_operations") :
        IF Len(r.entity_ids) = 0 \/ Len(r.entity_ids) > 50
        THEN /\ r.pc = "done"
             /\ r.response.isError
             /\ r.calls = <<>>
        ELSE /\ ~r.response.isError
             /\ Len(r.calls) >= 1

\* 51 entity ids: an error and no call
C23_Witness ==
    /\ returned.tool = "homeassistant_bulk_operations"
    /\ Len(returned.entity_ids) = 51
    /\ returned.response.isError
    /\ returned.calls = <<>>

\* 50 entity ids: the operation has run to its end with 50 calls
BulkOfFiftyDone ==
    /\ returned.tool = "homeassistant_bulk_operations"
    /\ Len(returned.entity_ids) = 50
    /\ Len(returned.calls) = 50
    /\ returned.response.successful = 50

\* the calls of a bulk invocation but for their targets: call k is the one
\* for entity k, on the domain of that entity and with the service of the
\* action; in parallel mode all calls are issued at once, in sequential mode
\* only the last call issued can be pending; when the invocation has
\* returned, every entity has its call and its result, in input order, and
\* successful + failed is the number of entities
BulkCallsInOrder(r) ==
    /\ Len(r.calls) <= Len(r.entity_ids)
    /\ \A k \in 1..Len(r.calls) :
          /\ r.calls[k].entity_id = r.entity_ids[k]
          /\ r.calls[k].domain = Split(r.entity_ids[k], ".")[1]
          /\ r.calls[k].service = (CASE r.operation = "on" -> "turn_on"
                                     [] r.operation = "off" -> "turn_off"
                                     [] r.operation = "toggle" -> "toggle")
    /\ r.parallel => Len(r.calls) = Len(r.entity_ids)
    /\ ~r.parallel =>
          \A k \in 1..(Len(r.calls) - 1) : r.calls[k].outcome # "pending"
    /\ r.pc = "done" =>
          /\ Len(r.calls) = Len(r.entity_ids)
          /\ Len(r.results) = Len(r.entity_ids)
          /\ \A k \in 1..Len(r.calls) :
                /\ r.calls[k].outcome # "pending"
                /\ r.results[k].entity_id = r.entity_ids[k]
                /\ r.results[k].success = (r.calls[k].outcome = "ok")
          /\ r.response.successful + r.response.failed = Len(r.entity_ids)
          /\ r.response.successful =
                Cardinality({ k \in 1..Len(r.calls) : r.calls[k].outcome = "ok" })

\* C24: for 1 to 50 entity ids, in both modes, the calls of a bulk
\* invocation are one per entity id, in input order, each targeting its
\* entity; failures stop nothing; the results are in input order and
\* successful + failed is the number of ids; in sequential mode a call is
\* issued only when the one before has completed.
C24_OneCallPerEntity ==
    \A r \in Invocations("homeassistant_bulk_operations") :
        Len(r.entity_ids) \in 1..50 =>
            /\ BulkCallsInOrder(r)
            /\ \A k \in 1..Len(r.calls) : r.calls[k].target = r.entity_ids[k]

\* the same without the targets: this much holds for every service_data
BulkCallsButTargets ==
    \A r \in Invocations("homeassistant_bulk_operations") :
        Len(r.entity_ids) \in 1..50 =>
            /\ BulkCallsInOrder(r)
            /\ (\A i \in 1..Len(r.service_data) : r.service_data[i].key # "entity_id")
                  => \A k \in 1..Len(r.calls) : r.calls[k].target = r.entity_ids[k]

\* the calls of an invocation of homeassistant_favorite_actions: call k is
\* the one for the k-th favorite of its start, on that entity's domain, with
\* the service of the action; only the call issued last can be pending;
\* when the invocation has returned every favorite has its call and its
\* result, and successful + failed is their number
FavoriteCallsInOrder(r) ==
    IF r.response.isError
    THEN r.calls = <<>> /\ r.pc = "done"
    ELSE /\ Len(r.favoriteEntities) >= 1
         /\ Len(r.calls) <= Len(r.favoriteEntities)
         /\ \A k \in 1..Len(r.calls) :
               /\ r.calls[k].target = r.favoriteEntities[k]
               /\ r.calls[k].domain = Split(r.favoriteEntities[k], ".")[1]
               /\ r.calls[k].service =
                     (CASE r.operation = "toggle_all"   -> "toggle"
                        [] r.operation = "turn_on_all"  -> "turn_on"
                        [] r.operation = "turn_off_all" -> "turn_off")
               /\ k < Len(r.calls) => r.calls[k].outcome # "pending"
         /\ r.pc = "done" =>
               /\ Len(r.calls) = Len(r.favoriteEntities)
               /\ \A k \in 1..Len(r.calls) : r.calls[k].outcome # "pending"
               /\ r.response.successful + r.response.failed = Len(r.favoriteEntities)
               /\ r.response.successful =
                     Cardinality({ k \in 1..Len(r.calls) : r.calls[k].outcome = "ok" })

\* the invocations of the tool that the step has started
Started(tool) ==
    { r \in BagToSet(requests') \cup {returned'} :
        /\ r.tool = tool
        /\ r.results = <<>>
        /\ r \notin InFlight
        /\ returned' # returned \/ requests' # requests }

\* C25: an invocation of toggle_all, turn_on_all or turn_off_all that starts
\* when there is no favorite returns an error and issues no call; otherwise
\* it takes the favorites of that moment, in insertion order, and issues
\* one call for each of them, one after the other, whatever the outcome of
\* the calls before and whatever is removed meanwhile; successful + failed
\* is the number of those favorites.
C25_FavoriteActionsRunToEnd ==
    /\ [](\A r \in Invocations("homeassistant_favorite_actions") :
             FavoriteCallsInOrder(r))
    /\ [][ \A r \in Started("homeassistant_favorite_actions") :
             IF ~haFavorites.exists \/ MapSize(haFavorites.entries) = 0
             THEN r.response.isError
             ELSE /\ ~r.response.isError
                  /\ r.favoriteEntities = MapKeys(haFavorites.entries)
          ]_allVars

\* an action on fan.z and light.a has returned with one call failed and one
\* succeeded, after the favorites were emptied meanwhile
C25_Witness ==
    /\ returned.tool = "homeassistant_favorite_actions"
    /\ returned.favoriteEntities = <<fanZ, lightA>>
    /\ Len(returned.calls) = 2
    /\ returned.calls[1].outcome # "ok"
    /\ returned.calls[2].outcome = "ok"
    /\ returned.response.failed = 1
    /\ returned.response.successful = 1
    /\ MapSize(haFavorites.entries) = 0

\* the path segments of the hass: URI of the call, as the router reads them
RoutedParts ==
    IF pc # "idle" /\ ParseURL(uri).ok /\ ParseURL(uri).protocol = hassProtocol
    THEN PathParts(ParseURL(uri))
    ELSE <<>>

\* the fetches of the call are the one fetch of the entity view for id
OnlyEntityFetch(id) ==
    fetches = <<[fn |-> "getHomeAssistantState", entity_id |-> id]>>

\* C28: a call whose path is entities/X/detailed is dispatched to the
\* detailed entity view of X, and to nothing else, also when X is 'domain';
\* a call whose path is entities/X is dispatched to the entity view of X,
\* also when X is 'domain'; a call whose path is entities/domain/D with D
\* other than 'detailed' is dispatched to the domain listing of D; the one
\* fetch of the call is the one of that handler.
C28_RouterFirstMatch ==
    LET parts == RoutedParts
    IN  /\ (Len(parts) = 3 /\ parts[1] = entities /\ parts[3] = detailed) =>
              /\ call.handler = "handleEntityResource"
              /\ call.detailed
              /\ call.entityId = parts[2]
              /\ call.domain = <<>>
              /\ OnlyEntityFetch(parts[2])
        /\ (Len(parts) = 2 /\ parts[1] = entities) =>
              /\ call.handler = "handleEntityResource"
              /\ ~call.detailed
              /\ call.entityId = parts[2]
              /\ OnlyEntityFetch(parts[2])
        /\ (Len(parts) = 3 /\ parts[1] = entities /\ parts[2] = domainWord
               /\ parts[3] # detailed) =>
              /\ call.handler = "handleDomainResource"
              /\ call.domain = parts[3]
              /\ call.entityId = <<>>
              /\ \A i \in 1..Len(fetches) : fetches[i].fn = "getAllStates"

\* hass:entities/domain/detailed has been answered by the detailed entity
\* view of the entity 'domain'
C28_Witness ==
    /\ pc = "done"
    /\ RoutedParts = <<entities, domainWord, detailed>>
    /\ call.handler = "handleEntityResource"
    /\ call.detailed
    /\ call.entityId = domainWord
    /\ response.arg = domainWord

\* the call a cross-reference is meant to lead to: link number i of the
\* response of the handler that ran call c
LinkTarget(c, r, i) ==
    CASE c.handler = "handleAllEntitiesResource" ->
           [NoCall EXCEPT !.handler = "handleDomainResource",
                          !.domain = SubSeq(r.links[i], Len(hassDomainPrefix) + 1,
                                            Len(r.links[i]))]
      [] c.handler = "handleEntityResource" ->
           [NoCall EXCEPT !.handler = "handleEntityResource",
                          !.entityId = c.entityId, !.detailed = TRUE]
      [] c.handler = "handleDomainResource" /\ i = 1 ->
           [NoCall EXCEPT !.handler = "handleDomainSummaryResource",
                          !.domain = c.domain]
      [] c.handler = "handleDomainResource" /\ i = 2 ->
           [NoCall EXCEPT !.handler = "handleSearchResource",
                          !.query = c.domain, !.limit = 20]
      [] c.handler = "handleDomainSummaryResource" /\ i = 1 ->
           [NoCall EXCEPT !.handler = "handleDomainResource",
                          !.domain = c.domain]
      [] c.handler = "handleDomainSummaryResource" /\ i = 2 ->
           [NoCall EXCEPT !.handler = "handleSearchResource",
                          !.query = c.domain, !.limit = 20]
      [] c.handler = "handleSearchResource" ->
           [NoCall EXCEPT !.handler = "handleEntityResource",
                          !.entityId = SubSeq(r.links[i], Len(hassEntitiesPrefix) + 1,
                                              Len(r.links[i]))]
      [] OTHER -> NoCall

\* C29: every cross-reference URI in the response of a handler, given back
\* to homeassistant_get_resource, is dispatched to the handler the link
\* names, with the same parameter.
C29_LinksRouteBack ==
    pc = "done" =>
      \A i \in 1..Len(response.links) :
         Route(response.links[i]).call = LinkTarget(call, response, i)

\* a link as written but for the two slashes after the scheme
WithoutSlashes(link) == hassProtocol \o SubSeq(link, 8, Len(link))

\* the same closure for the links written without the two slashes
LinksRouteBackWithoutSlashes ==
    pc = "done" =>
      \A i \in 1..Len(response.links) :
         Route(WithoutSlashes(response.links[i])).call
            = LinkTarget(call, response, i)

\* the tools of the six categories
AllCategoryTools ==
    Range(BasicTools) \cup Range(AutomationTools) \cup Range(HistoryTools)
    \cup Range(DeviceTools) \cup Range(SystemTools) \cup Range(ResourceTools)

\* the servers that createMcpServer has handed back
StatefulServers ==
    { s \in Sessions : servers[s].created /\ servers[s].entry = "createMcpServer" }

\* C26: every server created by createMcpServer has the minimal tools from
\* the moment it is handed back, and once its deferred load has run it has
\* the tools of all six categories.
C26_ProgressiveLoading ==
    \A s \in StatefulServers :
        /\ Range(MinimalTools) \subseteq Range(servers[s].tools)
        /\ servers[s].timer = "fired" =>
              AllCategoryTools \subseteq Range(servers[s].tools)

\* the minimal tools are there from the hand-back on
MinimalToolsAtHandBack ==
    \A s \in StatefulServers :
        Range(MinimalTools) \subseteq Range(servers[s].tools)

\* what a deferred load leaves: the minimal tools and the basic tools that
\* come before the name both sets have
DeferredLoadStopsAtDuplicate ==
    \A s \in StatefulServers :
        servers[s].timer = "fired" =>
            /\ servers[s].loadError
            /\ servers[s].tools = MinimalTools \o SubSeq(BasicTools, 1, 3)

\* C27: every request made on behalf of a session goes to the URL of that
\* session's config with the token of that session's config, whatever
\* sessions have been created since.
C27_SessionIsolation ==
    sent.session # "" =>
        /\ sent.url = servers[sent.session].config.HOME_ASSISTANT_URL
        /\ sent.token = servers[sent.session].config.HOME_ASSISTANT_TOKEN

\* a request of the session created last goes to that session's target
LastSessionReachesOwnTarget ==
    (sent.session # "" /\ servers[sent.session].config = env) =>
        /\ sent.url = servers[sent.session].config.HOME_ASSISTANT_URL
        /\ sent.token = servers[sent.session].config.HOME_ASSISTANT_TOKEN

====
